---- MODULE Spec2Model ----
(***************************************************************************)
(* Model of the gated legislative state machine of                          *)
(* src/api/routes/legislative.py.                                           *)
(*                                                                          *)
(* The persisted record (data/legislative-state.json) is the variable       *)
(* stateFile: the empty sequence while the file does not exist, a one       *)
(* element sequence holding the record once it has been written.            *)
(*                                                                          *)
(* Two specifications are given.  Spec runs the endpoints one call at a     *)
(* time: every endpoint is an "async def" with no await between its         *)
(* _load_state and its _save_state, so on one event loop a call runs from   *)
(* its load to its save without interruption.  SpecConc runs the calls on   *)
(* several worker processes (settings.api_workers), where the load and the  *)
(* save of one call are separate steps and calls of other workers may run   *)
(* in between.                                                              *)
(*                                                                          *)
(* Timestamps (created_at, updated_at, timestamp, approved_at) and the      *)
(* free-text notes are written into the record but never read by any        *)
(* endpoint's control flow; they are left out of the record.                *)
(*                                                                          *)
(* The second part models the messaging substrate and the agent lifecycle   *)
(* (src/core/messaging/kafka_client.py, src/agents/base/agent.py): the      *)
(* API's producer, the partitions of Topics.COMMANDS with the consumer      *)
(* groups' offsets, and agent processes whose run(), start(), stop() and    *)
(* consume() are cut at their await points.  SpecSend runs the producer     *)
(* against a broker that may fail, SpecMsg one agent process with signals   *)
(* and crashes, SpecCrash a process that is killed and restarted (with      *)
(* fairness), SpecGroup three processes of two agent types without          *)
(* failures.                                                                *)
(*                                                                          *)
(* SpecOrder runs the two MonitoringAgent processes, one consumer group.    *)
(* SpecStart runs one agent process whose producer or consumer may fail to  *)
(* start.  SpecReg runs the two register_handler methods (of the agent and  *)
(* of its subscriber) and the dispatch of consume() on the variable         *)
(* registry.  SpecLoop runs an agent that declares no consumed topics, the  *)
(* periodic loop of run(), on the variable looper.  auditLog holds the      *)
(* event records _log_event writes.                                         *)
(*                                                                          *)
(* SpecProgress runs the endpoints without reset, with approve_gate of the  *)
(* active gate and advance called again and again (weak fairness).          *)
(* SpecStop runs one agent process to its exit under a fair event loop,     *)
(* SpecPub one agent process whose handlers publish.  SpecFeedback runs a   *)
(* FeedbackAgent, a class with consumed topics and a _periodic_task, on     *)
(* the variable looper.  SpecBus runs the topics the agents publish to      *)
(* each other with the subscriptions of AnalysisAgent and StrategyAgent,    *)
(* on the variable bus.                                                     *)
(***************************************************************************)
EXTENDS Integers, Sequences, FiniteSets, TLC

\* Number of API worker processes in SpecConc.
NumWorkers == 2
\* Number of calls the workers of SpecConc start in one behaviour.
MaxCalls == 5

\* Number of envelopes published in one behaviour.
MaxMsgs == 2
\* Number of process crashes in one behaviour.
MaxCrashes == 1
\* Number of register_handler calls in one behaviour.
MaxRegs == 3
\* Number of messages dispatched to the registered handlers.
MaxDispatches == 2
\* Number of _periodic_task invocations that are told apart.
MaxTicks == 10
\* Number of envelopes an agent process publishes in one behaviour.
MaxAgentSends == 2
\* Records consumed by the agent under run() that are told apart (later ones
\* are counted as the last).
MaxRecords == 6
\* Number of envelopes the agents publish to each other in one behaviour.
MaxBusMsgs == 3

\* The approved_by values the requests are drawn from.  No endpoint reads or
\* compares an approved_by value, it is only stored; two values are what it
\* takes to tell a record written by one caller from one written by another.
Approvers == {"alice", "bob"}
Workers == 1..NumWorkers

VARIABLES stateFile, response, pc, call, local, started

\* The messaging substrate: the broker's topic, the API's producer and the
\* agent processes (src/core/messaging/kafka_client.py, src/agents/base).
VARIABLES partLog, committed, position, owner, sender, agent, inflight,
          invocations, crashes

\* The audit table (AgentEvent rows), the handler registrations of one agent
\* and its subscriber, and an agent process that consumes no topic.
VARIABLES auditLog, registry, looper, bus

legVars == <<stateFile, response, pc, call, local, started>>
auxVars == <<auditLog, registry, looper, bus>>
msgVars == <<partLog, committed, position, owner, sender, agent, inflight,
             invocations, crashes, auxVars>>
vars == <<legVars, msgVars>>
workerVars == <<pc, call, local, started>>

----------------------------------------------------------------------------
(* Static tables *)

STATE_ORDER ==
  <<"PRE_EVT", "INTRO_EVT", "COMM_EVT", "FLOOR_EVT", "FINAL_EVT", "IMPL_EVT">>

LegislativeState == {STATE_ORDER[i] : i \in 1..Len(STATE_ORDER)}

\* The keys of REVIEW_GATES in dictionary (insertion) order.
GATE_ORDER == <<"HR_PRE", "HR_LANG", "HR_MSG", "HR_RELEASE">>

GateIds == {GATE_ORDER[i] : i \in 1..Len(GATE_ORDER)}

REVIEW_GATES ==
  [g \in GateIds |->
     CASE g = "HR_PRE"     -> [from_state |-> "PRE_EVT",   to_state |-> "INTRO_EVT"]
       [] g = "HR_LANG"    -> [from_state |-> "COMM_EVT",  to_state |-> "FLOOR_EVT"]
       [] g = "HR_MSG"     -> [from_state |-> "FLOOR_EVT", to_state |-> "FINAL_EVT"]
       [] g = "HR_RELEASE" -> [from_state |-> "FINAL_EVT", to_state |-> "IMPL_EVT"]]

\* STATE_ORDER.index(LegislativeState(current)), 0-based as in the code.
StateIndex(s) == (CHOOSE i \in 1..Len(STATE_ORDER) : STATE_ORDER[i] = s) - 1

\* STATE_ORDER[i] for a 0-based index i.
StateAt(i) == STATE_ORDER[i + 1]

----------------------------------------------------------------------------
(* Storage functions *)

\* The default record of _load_state and of reset_state.
DefaultState ==
  [current_state |-> "PRE_EVT", transitions |-> <<>>, gates |-> <<>>]

\* The record _load_state returns.
LoadState(f) == IF Len(f) = 1 THEN f[1] ELSE DefaultState

FileAfterLoad_Default(f) == <<DefaultState>>

\* The file after _load_state: a missing file is written with the default.
FileAfterLoad(f) == IF Len(f) = 1 THEN f ELSE <<DefaultState>>

\* The file after _save_state(state).
SaveState(state) == <<state>>

\* state.get("gates", {}).get(gate_id, {}).get("status", "pending")
GateStatus(state, gate_id) ==
  IF gate_id \in DOMAIN state.gates THEN state.gates[gate_id].status
  ELSE "pending"

\* state.get("gates", {}).get(gate_id, {}).get("approved_by")
GateApprovedBy(state, gate_id) ==
  IF gate_id \in DOMAIN state.gates THEN state.gates[gate_id].approved_by
  ELSE "None"

\* The gate the loop "for gate_id, gate in REVIEW_GATES.items()" stops at,
\* hits being the positions in dictionary order whose test is true; "None"
\* when the loop runs to its end.
FirstGate(hits) ==
  IF hits = {} THEN "None"
  ELSE GATE_ORDER[CHOOSE i \in hits : \A j \in hits : i <= j]

\* The gate loop of get_current_state: the first gate bound to the current
\* state whose status is pending.
PendingGate(state, current) ==
  FirstGate({i \in 1..Len(GATE_ORDER) :
               /\ REVIEW_GATES[GATE_ORDER[i]].from_state = current
               /\ GateStatus(state, GATE_ORDER[i]) = "pending"})

----------------------------------------------------------------------------
(* The endpoints as functions of the loaded record *)

NoBody == [kind |-> "none"]

CanAdvance_NoIndexCheck(state_index, pending_gate) == pending_gate = "None"

\* can_advance of get_current_state:
\* state_index < len(STATE_ORDER) - 1 and pending_gate is None
CanAdvance(state_index, pending_gate) ==
  state_index < Len(STATE_ORDER) - 1 /\ pending_gate = "None"

\* get_current_state: the StateInfo built from a loaded record.
StateInfo(state) ==
  LET current == state.current_state
      state_index == StateIndex(current)
      pending_gate == PendingGate(state, current)
  IN [kind |-> "StateInfo",
      current_state |-> current,
      state_index |-> state_index,
      total_states |-> Len(STATE_ORDER),
      can_advance |-> CanAdvance(state_index, pending_gate),
      pending_gate |-> pending_gate]

\* get_all_states: the status of each state of STATE_ORDER.
AllStatesBody(state) ==
  LET current_index == StateIndex(state.current_state)
  IN [kind |-> "states",
      states |-> [i \in 1..Len(STATE_ORDER) |->
                    [state_id |-> STATE_ORDER[i],
                     index |-> i - 1,
                     status |-> IF i - 1 < current_index THEN "completed"
                                ELSE IF i - 1 = current_index THEN "current"
                                ELSE "upcoming"]]]

\* get_state_history: the transitions of the loaded record.
HistoryBody(state) == [kind |-> "history", transitions |-> state.transitions]

\* get_review_gates: every gate of REVIEW_GATES with its status.
GatesBody(state) ==
  [kind |-> "gates",
   gates |-> [i \in 1..Len(GATE_ORDER) |->
                LET g == GATE_ORDER[i]
                IN [gate_id |-> g,
                    from_state |-> REVIEW_GATES[g].from_state,
                    to_state |-> REVIEW_GATES[g].to_state,
                    status |-> GateStatus(state, g),
                    is_active |-> (REVIEW_GATES[g].from_state = state.current_state),
                    approved_by |-> GateApprovedBy(state, g)]]]

\* The final-state test of advance_state.
AtFinalState(current_index) == current_index >= Len(STATE_ORDER) - 1

BlockingGate_WrongStatus(state, current) ==
  FirstGate({i \in 1..Len(GATE_ORDER) :
               /\ REVIEW_GATES[GATE_ORDER[i]].from_state = current
               /\ GateStatus(state, GATE_ORDER[i]) = "blocked"})

BlockingGate_AnyState(state, current) ==
  FirstGate({i \in 1..Len(GATE_ORDER) :
               GateStatus(state, GATE_ORDER[i]) /= "approved"})

\* The gate loop of advance_state: the first gate bound to the current state
\* whose status is not approved (the one the call raises for).
BlockingGate(state, current) ==
  FirstGate({i \in 1..Len(GATE_ORDER) :
               /\ REVIEW_GATES[GATE_ORDER[i]].from_state = current
               /\ GateStatus(state, GATE_ORDER[i]) /= "approved"})

NextState_Skip(current_index) ==
  IF current_index + 2 <= Len(STATE_ORDER) - 1
  THEN StateAt(current_index + 2)
  ELSE StateAt(Len(STATE_ORDER) - 1)

\* next_state = STATE_ORDER[current_index + 1].value
NextState(current_index) == StateAt(current_index + 1)

AppendTransition_Overwrite(transitions, transition) == <<transition>>

\* state.setdefault("transitions", []).append(transition)
AppendTransition(transitions, transition) == Append(transitions, transition)

MakeTransition_NoApprover(current, next_state, approved_by) ==
  [from_state |-> current, to_state |-> next_state, approved_by |-> "None"]

\* The transition record advance_state builds (timestamp and notes left out).
MakeTransition(current, next_state, approved_by) ==
  [from_state |-> current, to_state |-> next_state,
   approved_by |-> approved_by]

AdvanceOn_NoFinalCheck(state, approved_by) ==
  LET current == state.current_state
      current_index == StateIndex(current)
      blocking == BlockingGate(state, current)
  IN IF blocking /= "None"
       THEN [ok |-> FALSE, status_code |-> 400, detail |-> "gate_not_approved",
             gate |-> blocking, state |-> state]
     ELSE LET next_state == StateAt((current_index + 1) % Len(STATE_ORDER))
              transition == [from_state |-> current,
                             to_state |-> next_state,
                             approved_by |-> approved_by]
          IN [ok |-> TRUE, status_code |-> 200, detail |-> "none",
              gate |-> "None",
              state |-> [state EXCEPT
                           !.transitions = AppendTransition(@, transition),
                           !.current_state = next_state]]

\* advance_state up to its _save_state: the outcome on a loaded record.
\* ok: the call reaches _save_state; state: the record it saves.
AdvanceOn(state, approved_by) ==
  LET current == state.current_state
      current_index == StateIndex(current)
      blocking == BlockingGate(state, current)
  IN IF AtFinalState(current_index)
       THEN [ok |-> FALSE, status_code |-> 400, detail |-> "final_state",
             gate |-> "None", state |-> state]
     ELSE IF blocking /= "None"
       THEN [ok |-> FALSE, status_code |-> 400, detail |-> "gate_not_approved",
             gate |-> blocking, state |-> state]
     ELSE LET next_state == NextState(current_index)
              transition == MakeTransition(current, next_state, approved_by)
          IN [ok |-> TRUE, status_code |-> 200, detail |-> "none",
              gate |-> "None",
              state |-> [state EXCEPT
                           !.transitions = AppendTransition(@, transition),
                           !.current_state = next_state]]

SetGate_Replace(gates, gate_id, entry) == [g \in {gate_id} |-> entry]

\* state.setdefault("gates", {})[gate_id] = {...}
SetGate(gates, gate_id, entry) ==
  [g \in (DOMAIN gates) \cup {gate_id} |->
     IF g = gate_id THEN entry ELSE gates[g]]

ApproveOn_NoActiveCheck(state, gate_id, approved_by) ==
  LET entry == [status |-> "approved", approved_by |-> approved_by]
  IN [ok |-> TRUE, status_code |-> 200, detail |-> "none",
      gate |-> gate_id,
      state |-> [state EXCEPT !.gates = SetGate(@, gate_id, entry)]]

\* approve_gate after its _load_state, for a gate_id of REVIEW_GATES.
ApproveOn(state, gate_id, approved_by) ==
  LET current == state.current_state
      gate == REVIEW_GATES[gate_id]
      entry == [status |-> "approved", approved_by |-> approved_by]
  IN IF gate.from_state /= current
       THEN [ok |-> FALSE, status_code |-> 400, detail |-> "gate_not_active",
             gate |-> gate_id, state |-> state]
     ELSE [ok |-> TRUE, status_code |-> 200, detail |-> "none",
           gate |-> gate_id,
           state |-> [state EXCEPT !.gates = SetGate(@, gate_id, entry)]]

----------------------------------------------------------------------------
(* Messaging: envelopes, topic, handler tables *)

\* The agent processes: two MonitoringAgent instances and one AnalysisAgent.
Instances == {1, 2, 3}

\* AGENT_TYPE of the class an instance is constructed from.
AGENT_TYPE(i) == IF i = 3 THEN "analysis" ELSE "monitoring"

GroupId_NoType(i) == <<"advocacy-agents">>

\* The group_id BaseAgent.start gives its KafkaConsumer:
\* f"{settings.kafka_consumer_group}-{self.AGENT_TYPE}"
GroupId(i) == <<"advocacy-agents", AGENT_TYPE(i)>>

Groups == {GroupId(i) : i \in Instances}

\* The partitions of Topics.COMMANDS, which both classes consume.
Partitions == {1, 2}

\* AgentMessage.type of the envelopes the API publishes to Topics.COMMANDS:
\* one handled by MonitoringAgent, one handled by AnalysisAgent.
MessageTypes == {"scan_command", "generate_brief"}

\* The key register_handler stores wildcard handlers under.
Wildcard == "*"

\* self._handlers of an agent after _register_handlers: the message types
\* the class registers a handler for.  A handler is named by the key it is
\* registered under.
RegisteredTypes(i) ==
  IF AGENT_TYPE(i) = "analysis"
  THEN {"intelligence_item", "analysis_request", "fact_check_request",
        "generate_brief"}
  ELSE {"scan_command", "add_keyword", "track_bill"}

RegisterAll_Skip(keys) == <<>>

\* KafkaConsumer._handlers after BaseAgent.start has registered every entry
\* of self._handlers: one list per key, holding that key's handler.
RegisterAll(keys) == [k \in keys |-> <<k>>]

\* handlers = self._handlers.get(message.type, [])
TypedHandlers(reg, type) == IF type \in DOMAIN reg THEN reg[type] ELSE <<>>

HandlersFor_TypedTwice(reg, type) ==
  TypedHandlers(reg, type) \o TypedHandlers(reg, type)
    \o TypedHandlers(reg, Wildcard)

\* The list consume() iterates over for a message of the given type:
\* the typed list extended by the wildcard list.
HandlersFor(reg, type) ==
  TypedHandlers(reg, type) \o TypedHandlers(reg, Wildcard)

\* KafkaConsumer._handlers after that extend: get() returned the registered
\* list itself, so the extend changed the table entry of the type.
RegAfterDispatch(reg, type) ==
  IF type \in DOMAIN reg
  THEN [reg EXCEPT ![type] = HandlersFor(reg, type)]
  ELSE reg

NoMsg == [id |-> 0, type |-> "none", partition |-> 0]

\* No handler invocation.
NoInv == [id |-> 0, handler |-> "none"]

\* An agent process after BaseAgent.__init__.
\*   status, running: AgentState.status, BaseAgent._running
\*   producer: self._producer: "none", "created" (KafkaProducer whose
\*     _started is False) or "started"
\*   consumer: self._consumer is set
\*   cStarted, cRunning: KafkaConsumer._started and ._running
\*   cClosed: the AIOKafkaConsumer of the KafkaConsumer has been told to stop
\*   joined: that AIOKafkaConsumer is a member of its consumer group
\*   handlers: KafkaConsumer._handlers
\*   runPc, sigPc: where the run() task and the signal's stop() task await
\*   hqueue: the handlers consume() has still to call for its record
\*   awaited: the handler invocation consume() awaits
\*   stopBegun: stop() has started executing in this process
\*   errored, dropped: the ids of the messages the process has logged
\*     "Handler error" and "No handler for message type" for
AgentInit ==
  [status |-> "initializing", running |-> FALSE, producer |-> "none",
   consumer |-> FALSE, cStarted |-> FALSE, cRunning |-> FALSE,
   cClosed |-> FALSE, joined |-> FALSE, handlers |-> <<>>,
   runPc |-> "new", sigPc |-> "none",
   hqueue |-> <<>>, awaited |-> NoInv, stopBegun |-> FALSE,
   errored |-> {}, dropped |-> {},
   messages_processed |-> 0, errors_count |-> 0, sent |-> 0]

\* What the broker does with one send: "acked" (written and acknowledged),
\* "lost" (not written, the request fails), "timeout" (written, but the
\* acknowledgement does not arrive and the request fails), "start_failed"
\* (the producer cannot connect).
SendOutcomes == {"acked", "lost", "timeout", "start_failed"}

SendResult_Swallows(outcome) == "returned"

\* How KafkaProducer.send ends: it returns when send_and_wait returned, and
\* re-raises (or lets start() raise) otherwise.
SendResult(outcome) == IF outcome = "acked" THEN "returned" ELSE "raised"

\* The API's module-level KafkaProducer (get_producer) and its last send:
\* id is the AgentMessage.id of the envelope (0: nothing sent yet), outcome
\* what the broker did with it, result how send() ended.
SenderInit == [started |-> FALSE, id |-> 0, outcome |-> "none",
               result |-> "none"]

\* The functions an agent or a test may register as handlers.
HandlerFns == {"f", "g"}

\* The keys handlers are registered under in the registration model.
RegTypes == {"scan_command", Wildcard}

NoReg == [api |-> "none", type |-> "none", fn |-> "none"]

\* One agent object and the subscriber its start() creates:
\*   declared: BaseAgent._handlers, message type -> function
\*   started: start() has created the subscriber and registered declared
\*   table: KafkaConsumer._handlers, message type -> list of functions
\*   history: the functions register_handler of the subscriber was called
\*     with, per type, in call order
\*   last: the latest register_handler call
\*   dtype, called: the type of the latest dispatched message and the
\*     functions consume() called for it, in call order
\*   regs: the number of register_handler calls
RegistryInit ==
  [declared |-> <<>>, started |-> FALSE, table |-> <<>>, history |-> <<>>,
   last |-> NoReg, dtype |-> "none", called |-> <<>>, regs |-> 0,
   dispatches |-> 0]

\* An agent process whose class declares no CONSUME_TOPICS: the fields of
\* AgentInit, and ticks, the number of _periodic_task invocations.
LooperInit == [a |-> AgentInit, ticks |-> 0, records |-> 0]

\* The topics the agents use among themselves (Topics) that matter for an
\* analysis request, and the two agent classes that touch them.
BusTopics == {"intelligence", "analysis"}
BusClasses == {"analysis", "strategy"}

\* CONSUME_TOPICS of the class, restricted to BusTopics (Topics.COMMANDS and
\* Topics.STRATEGY carry no analysis request and are left out).
CONSUME_TOPICS(c) ==
  IF c = "analysis" THEN {"intelligence"} ELSE {"analysis"}

\* The message types the class registers a handler for.
ClassHandlers(c) ==
  IF c = "analysis"
  THEN {"intelligence_item", "analysis_request", "fact_check_request",
        "generate_brief"}
  ELSE {"intelligence_brief", "update_strategy", "analyze_stakeholders",
        "recommend_targets"}

\* The topics with their envelopes, each class's (consumer group's) position
\* in each topic, the handler calls made and the envelopes dropped for want
\* of a handler.
BusInit ==
  [log |-> [t \in BusTopics |-> <<>>],
   pos |-> [c \in BusClasses |-> [t \in BusTopics |-> 0]],
   called |-> {}, dropped |-> {}, sent |-> 0]

MsgInit ==
  /\ auditLog = <<>>
  /\ registry = RegistryInit
  /\ looper = LooperInit
  /\ bus = BusInit
  /\ partLog = [p \in Partitions |-> <<>>]
  /\ committed = [g \in Groups |-> [p \in Partitions |-> -1]]
  /\ position = [g \in Groups |-> [p \in Partitions |-> 0]]
  /\ owner = [g \in Groups |-> [p \in Partitions |-> 0]]
  /\ sender = SenderInit
  /\ agent = [i \in Instances |-> AgentInit]
  /\ inflight = [i \in Instances |-> {}]
  /\ invocations = <<>>
  /\ crashes = 0

----------------------------------------------------------------------------
(* Responses *)

\* What the caller of the last completed call sent and got back.
Resp(op, gate_id, approved_by, status_code, detail, body) ==
  [op |-> op, gate_id |-> gate_id, approved_by |-> approved_by,
   status_code |-> status_code, detail |-> detail, body |-> body]

\* {"success": True, "gate_id": gate_id, "status": "approved"}
ApprovedBody(gate_id) ==
  [kind |-> "approved", gate_id |-> gate_id, status |-> "approved"]

\* {"success": True, "message": "State reset to PRE_EVT"}
ResetBody == [kind |-> "reset"]

\* Gate ids a caller may put in the path, one of them not in REVIEW_GATES.
RequestGateIds == GateIds \cup {"HR_UNKNOWN"}

NoCall == [op |-> "none", gate_id |-> "None", approved_by |-> "None"]

Init ==
  /\ MsgInit
  /\ stateFile = <<>>
  /\ response = Resp("none", "None", "None", 0, "none", NoBody)
  /\ pc = [p \in Workers |-> "idle"]
  /\ call = [p \in Workers |-> NoCall]
  /\ local = [p \in Workers |-> DefaultState]
  /\ started = 0

----------------------------------------------------------------------------
(* One call at a time (Spec) *)

get_current_state ==
  /\ stateFile' = FileAfterLoad(stateFile)
  /\ response' = Resp("get_current_state", "None", "None", 200, "none",
                      StateInfo(LoadState(stateFile)))
  /\ UNCHANGED <<workerVars, msgVars>>

get_all_states ==
  /\ stateFile' = FileAfterLoad(stateFile)
  /\ response' = Resp("get_all_states", "None", "None", 200, "none",
                      AllStatesBody(LoadState(stateFile)))
  /\ UNCHANGED <<workerVars, msgVars>>

get_state_history ==
  /\ stateFile' = FileAfterLoad(stateFile)
  /\ response' = Resp("get_state_history", "None", "None", 200, "none",
                      HistoryBody(LoadState(stateFile)))
  /\ UNCHANGED <<workerVars, msgVars>>

get_review_gates ==
  /\ stateFile' = FileAfterLoad(stateFile)
  /\ response' = Resp("get_review_gates", "None", "None", 200, "none",
                      GatesBody(LoadState(stateFile)))
  /\ UNCHANGED <<workerVars, msgVars>>

advance_state(approved_by) ==
  LET r == AdvanceOn(LoadState(stateFile), approved_by)
  IN /\ stateFile' = IF r.ok THEN SaveState(r.state)
                     ELSE FileAfterLoad(stateFile)
     /\ response' = IF r.ok
                    THEN Resp("advance", "None", approved_by, 200, "none",
                              StateInfo(LoadState(SaveState(r.state))))
                    ELSE Resp("advance", r.gate, approved_by, r.status_code,
                              r.detail, NoBody)
     /\ UNCHANGED <<workerVars, msgVars>>

approve_gate(gate_id, approved_by) ==
  /\ IF gate_id \notin GateIds
     THEN /\ stateFile' = stateFile
          /\ response' = Resp("approve_gate", gate_id, approved_by, 404,
                              "gate_not_found", NoBody)
     ELSE LET r == ApproveOn(LoadState(stateFile), gate_id, approved_by)
          IN /\ stateFile' = IF r.ok THEN SaveState(r.state)
                             ELSE FileAfterLoad(stateFile)
             /\ response' = IF r.ok
                            THEN Resp("approve_gate", gate_id, approved_by,
                                      200, "none", ApprovedBody(gate_id))
                            ELSE Resp("approve_gate", gate_id, approved_by,
                                      r.status_code, r.detail, NoBody)
  /\ UNCHANGED <<workerVars, msgVars>>

reset_state_KeepGates ==
  /\ stateFile' = SaveState([DefaultState EXCEPT
                               !.gates = LoadState(stateFile).gates])
  /\ response' = Resp("reset", "None", "None", 200, "none", ResetBody)
  /\ UNCHANGED <<workerVars, msgVars>>

reset_state ==
  /\ stateFile' = SaveState(DefaultState)
  /\ response' = Resp("reset", "None", "None", 200, "none", ResetBody)
  /\ UNCHANGED <<workerVars, msgVars>>

Next ==
  \/ get_current_state
  \/ get_all_states
  \/ get_state_history
  \/ get_review_gates
  \/ \E a \in Approvers : advance_state(a)
  \/ \E g \in RequestGateIds, a \in Approvers : approve_gate(g, a)
  \/ reset_state

Spec == Init /\ [][Next]_vars

\* The calls of Spec without reset.
NextProgress ==
  \/ get_current_state
  \/ get_all_states
  \/ get_state_history
  \/ get_review_gates
  \/ \E a \in Approvers : advance_state(a)
  \/ \E g \in RequestGateIds, a \in Approvers : approve_gate(g, a)

\* An advance call.
AdvanceCalled == \E a \in Approvers : advance_state(a)

\* An approve_gate call for the gate bound to the current state.
ApproveActiveCalled ==
  \E g \in GateIds, a \in Approvers :
    /\ REVIEW_GATES[g].from_state = LoadState(stateFile).current_state
    /\ approve_gate(g, a)

\* Callers that keep calling advance and keep approving the gate of the
\* current state, among any other calls, and never reset.
SpecProgress ==
  /\ Init
  /\ [][NextProgress]_vars
  /\ WF_vars(AdvanceCalled)
  /\ WF_vars(ApproveActiveCalled)

----------------------------------------------------------------------------
(* Calls on several worker processes (SpecConc) *)

Idle(p) == pc[p] = "idle" /\ started < MaxCalls

\* Worker p returns to idle.
Finish(p) ==
  /\ pc' = [pc EXCEPT ![p] = "idle"]
  /\ call' = [call EXCEPT ![p] = NoCall]
  /\ local' = [local EXCEPT ![p] = DefaultState]

\* advance_state on worker p: _load_state and the checks on the loaded copy.
BeginAdvance(p, approved_by) ==
  LET state == LoadState(stateFile)
      r == AdvanceOn(state, approved_by)
  IN /\ Idle(p)
     /\ UNCHANGED msgVars
     /\ started' = started + 1
     /\ stateFile' = FileAfterLoad(stateFile)
     /\ IF r.ok
        THEN /\ pc' = [pc EXCEPT ![p] = "loaded"]
             /\ call' = [call EXCEPT ![p] = [op |-> "advance",
                                             gate_id |-> "None",
                                             approved_by |-> approved_by]]
             /\ local' = [local EXCEPT ![p] = state]
             /\ UNCHANGED response
        ELSE /\ response' = Resp("advance", r.gate, approved_by,
                                 r.status_code, r.detail, NoBody)
             /\ UNCHANGED <<pc, call, local>>

\* advance_state on worker p: _save_state of the modified copy.
SaveAdvance(p) ==
  /\ pc[p] = "loaded"
  /\ call[p].op = "advance"
  /\ stateFile' = SaveState(AdvanceOn(local[p], call[p].approved_by).state)
  /\ pc' = [pc EXCEPT ![p] = "saved"]
  /\ UNCHANGED <<response, call, local, started, msgVars>>

\* advance_state on worker p: return await get_current_state().
RespondAdvance(p) ==
  /\ pc[p] = "saved"
  /\ UNCHANGED msgVars
  /\ stateFile' = FileAfterLoad(stateFile)
  /\ response' = Resp("advance", "None", call[p].approved_by, 200, "none",
                      StateInfo(LoadState(stateFile)))
  /\ Finish(p)
  /\ UNCHANGED started

\* approve_gate on worker p: the 404 check, _load_state and the active check.
BeginApprove(p, gate_id, approved_by) ==
  /\ Idle(p)
  /\ UNCHANGED msgVars
  /\ started' = started + 1
  /\ IF gate_id \notin GateIds
     THEN /\ response' = Resp("approve_gate", gate_id, approved_by, 404,
                              "gate_not_found", NoBody)
          /\ UNCHANGED <<stateFile, pc, call, local>>
     ELSE LET state == LoadState(stateFile)
              r == ApproveOn(state, gate_id, approved_by)
          IN /\ stateFile' = FileAfterLoad(stateFile)
             /\ IF r.ok
                THEN /\ pc' = [pc EXCEPT ![p] = "loaded"]
                     /\ call' = [call EXCEPT ![p] = [op |-> "approve_gate",
                                                     gate_id |-> gate_id,
                                                     approved_by |-> approved_by]]
                     /\ local' = [local EXCEPT ![p] = state]
                     /\ UNCHANGED response
                ELSE /\ response' = Resp("approve_gate", gate_id, approved_by,
                                         r.status_code, r.detail, NoBody)
                     /\ UNCHANGED <<pc, call, local>>

\* approve_gate on worker p: _save_state of the modified copy and the reply.
SaveApprove(p) ==
  /\ pc[p] = "loaded"
  /\ UNCHANGED msgVars
  /\ call[p].op = "approve_gate"
  /\ stateFile' = SaveState(ApproveOn(local[p], call[p].gate_id,
                                      call[p].approved_by).state)
  /\ response' = Resp("approve_gate", call[p].gate_id, call[p].approved_by,
                      200, "none", ApprovedBody(call[p].gate_id))
  /\ Finish(p)
  /\ UNCHANGED started

\* reset_state on worker p: it loads nothing and saves the default record.
WorkerReset(p) ==
  /\ Idle(p)
  /\ UNCHANGED msgVars
  /\ started' = started + 1
  /\ stateFile' = SaveState(DefaultState)
  /\ response' = Resp("reset", "None", "None", 200, "none", ResetBody)
  /\ UNCHANGED <<pc, call, local>>

NextConc ==
  \/ \E p \in Workers, a \in Approvers : BeginAdvance(p, a)
  \/ \E p \in Workers : SaveAdvance(p)
  \/ \E p \in Workers : RespondAdvance(p)
  \/ \E p \in Workers, g \in RequestGateIds, a \in Approvers :
       BeginApprove(p, g, a)
  \/ \E p \in Workers : SaveApprove(p)
  \/ \E p \in Workers : WorkerReset(p)
  \/ get_current_state

SpecConc == Init /\ [][NextConc]_vars

----------------------------------------------------------------------------
(* Messaging: the broker, the producer and the agent processes *)

brokerVars == <<partLog, committed, position, owner>>

\* The members of a consumer group.
Members(g) == {i \in Instances : GroupId(i) = g /\ agent[i].joined}

\* The member a partition is assigned to: the partitions are dealt out to
\* the members in order.
Assign(M, p) ==
  IF M = {} THEN 0
  ELSE CHOOSE i \in M :
         Cardinality({j \in M : j < i}) = (p - 1) % Cardinality(M)

OffsetReset_Latest == "latest"

\* auto_offset_reset of the AIOKafkaConsumer.
OffsetReset == "earliest"

\* Where the owner of partition p starts to read when the group's committed
\* offset of p is c (-1: the group has committed none).
StartOffset(c, p) ==
  IF c >= 0 THEN c
  ELSE IF OffsetReset = "earliest" THEN 0 ELSE Len(partLog[p])

\* A group gets the member set M.  The members in committers commit their
\* positions before they give up their partitions (enable_auto_commit); the
\* new owner of a partition starts at its committed offset.
GroupChange(g, M, committers) ==
  LET com == [p \in Partitions |->
                IF owner[g][p] \in committers THEN position[g][p]
                ELSE committed[g][p]]
  IN /\ committed' = [committed EXCEPT ![g] = com]
     /\ position' = [position EXCEPT ![g] =
                       [p \in Partitions |->
                          IF M = {} THEN 0 ELSE StartOffset(com[p], p)]]
     /\ owner' = [owner EXCEPT ![g] = [p \in Partitions |-> Assign(M, p)]]

\* The envelopes in the topic.
Published ==
  UNION {{partLog[p][k] : k \in 1..Len(partLog[p])} : p \in Partitions}

Enqueue_Front(log, message) == <<message>> \o log

\* The broker writes a record it accepted at the end of the partition's log.
Enqueue(log, message) == Append(log, message)

\* KafkaProducer.send of the API's producer: an envelope with a fresh id and
\* the given type goes to the partition its key (the id) hashes to.
send(type, p, outcome) ==
  /\ sender.id < MaxMsgs
  /\ outcome = "start_failed" => ~sender.started
  /\ LET message == [id |-> sender.id + 1, type |-> type, partition |-> p]
     IN /\ partLog' = IF outcome \in {"acked", "timeout"}
                      THEN [partLog EXCEPT ![p] = Enqueue(@, message)]
                      ELSE partLog
        /\ sender' = [started |-> outcome # "start_failed",
                      id |-> message.id,
                      outcome |-> outcome,
                      result |-> SendResult(outcome)]
  /\ UNCHANGED <<legVars, auxVars, committed, position, owner, agent, inflight,
                 invocations, crashes>>

\* A task's await position: the run() task or the signal's stop() task.
SetPc(a, task, v) ==
  IF task = "run" THEN [a EXCEPT !.runPc = v] ELSE [a EXCEPT !.sigPc = v]

PcOf(a, task) == IF task = "run" THEN a.runPc ELSE a.sigPc

\* BaseAgent.stop from "if self._producer": KafkaProducer.stop awaits the
\* stop of a started producer and does nothing otherwise.
StopProducer(a, task) ==
  IF a.producer = "started"
  THEN SetPc(a, task, "stop_producer")
  ELSE SetPc(a, task, "done")

\* BaseAgent.stop from "if self._consumer": KafkaConsumer.stop clears
\* _running and awaits the stop of a started consumer; stopping an
\* AIOKafkaConsumer that is already closed returns at once.
StopConsumer(a, task) ==
  IF ~a.consumer THEN StopProducer(a, task)
  ELSE LET b == [a EXCEPT !.cRunning = FALSE]
       IN IF ~b.cStarted THEN StopProducer(b, task)
          ELSE IF b.cClosed
               THEN StopProducer([b EXCEPT !.cStarted = FALSE], task)
               ELSE SetPc([b EXCEPT !.cClosed = TRUE], task, "stop_consumer")

\* BaseAgent.stop up to its first suspension.  _on_stop is not overridden by
\* any agent class and does not suspend.
StopBegin(a, task) ==
  StopConsumer([a EXCEPT !.running = FALSE, !.status = "stopped",
                         !.stopBegun = TRUE], task)

\* consume() leaves its loop: its finally clears _running, and run()'s
\* finally calls stop().
ConsumeExit(a) ==
  StopBegin([a EXCEPT !.cRunning = FALSE, !.awaited = NoInv,
                      !.hqueue = <<>>], "run")

\* "async for record in self._consumer" asks for the next record: a closed
\* AIOKafkaConsumer ends the iteration, an open one is awaited.
NextRecord(a) ==
  IF a.cClosed THEN ConsumeExit(a)
  ELSE [a EXCEPT !.runPc = "fetch", !.awaited = NoInv, !.hqueue = <<>>]

\* KafkaConsumer.consume up to its first suspension.
ConsumeEntry(a) ==
  IF a.cStarted
  THEN NextRecord([a EXCEPT !.cRunning = TRUE])
  ELSE [a EXCEPT !.runPc = "restart_consumer"]

\* Whether _on_start of the agent's class suspends (MonitoringAgent awaits
\* _load_tracked_bills; AnalysisAgent keeps the empty hook).
OnStartSuspends(i) == AGENT_TYPE(i) = "monitoring"

\* run() -> start(): status, the producer is created and its start awaited.
run_start(i) ==
  /\ agent[i].runPc = "new"
  /\ agent' = [agent EXCEPT ![i] = [@ EXCEPT !.status = "initializing",
                                             !.producer = "created",
                                             !.runPc = "start_producer"]]
  /\ UNCHANGED <<legVars, auxVars, brokerVars, sender, inflight, invocations, crashes>>

\* start(): the producer has started; the consumer is created with the
\* group id of the agent type and its start awaited.
producer_started(i) ==
  /\ agent[i].runPc = "start_producer"
  /\ agent' = [agent EXCEPT ![i] = [@ EXCEPT !.producer = "started",
                                             !.consumer = TRUE,
                                             !.cStarted = FALSE,
                                             !.cRunning = FALSE,
                                             !.cClosed = FALSE,
                                             !.handlers = <<>>,
                                             !.runPc = "start_consumer"]]
  /\ UNCHANGED <<legVars, auxVars, brokerVars, sender, inflight, invocations, crashes>>

\* start(): the consumer has started and joined its group; the handlers are
\* registered, the agent is running, _on_start is called; then run() enters
\* consume() unless _on_start suspends.
consumer_started(i) ==
  /\ agent[i].runPc = "start_consumer"
  /\ LET a == [agent[i] EXCEPT !.cStarted = TRUE, !.joined = TRUE,
                               !.handlers = RegisterAll(RegisteredTypes(i)),
                               !.status = "running", !.running = TRUE]
     IN agent' = [agent EXCEPT ![i] =
                    IF OnStartSuspends(i) THEN [a EXCEPT !.runPc = "on_start"]
                    ELSE ConsumeEntry(a)]
  /\ GroupChange(GroupId(i), Members(GroupId(i)) \cup {i},
                 Members(GroupId(i)))
  /\ UNCHANGED <<legVars, auxVars, partLog, sender, inflight, invocations, crashes>>

\* start(): "await self._producer.start()" raises (broker unreachable).
\* start() is called before run()'s try, so the exception leaves run() and
\* run_agent without stop() being called, and the process ends.
producer_start_fails(i) ==
  /\ agent[i].runPc = "start_producer"
  /\ agent' = [agent EXCEPT ![i] = [@ EXCEPT !.runPc = "failed",
                                             !.sigPc = "done"]]
  /\ UNCHANGED <<legVars, auxVars, brokerVars, sender, inflight, invocations,
                 crashes>>

\* start(): "await self._consumer.start()" raises; the exception leaves
\* run() in the same way, the producer started before it left as it is.
consumer_start_fails(i) ==
  /\ agent[i].runPc = "start_consumer"
  /\ agent' = [agent EXCEPT ![i] = [@ EXCEPT !.runPc = "failed",
                                             !.sigPc = "done"]]
  /\ UNCHANGED <<legVars, auxVars, brokerVars, sender, inflight, invocations,
                 crashes>>

\* _on_start returns; run() enters consume().
on_start_done(i) ==
  /\ agent[i].runPc = "on_start"
  /\ agent' = [agent EXCEPT ![i] = ConsumeEntry(@)]
  /\ UNCHANGED <<legVars, auxVars, brokerVars, sender, inflight, invocations, crashes>>

\* consume() found the consumer not started and has started it again.
consumer_restarted(i) ==
  /\ agent[i].runPc = "restart_consumer"
  /\ agent' = [agent EXCEPT ![i] =
                  NextRecord([@ EXCEPT !.cStarted = TRUE, !.cClosed = FALSE,
                                       !.joined = TRUE, !.cRunning = TRUE])]
  /\ GroupChange(GroupId(i), Members(GroupId(i)) \cup {i},
                 Members(GroupId(i)))
  /\ UNCHANGED <<legVars, auxVars, partLog, sender, inflight, invocations, crashes>>

AwaitsResult_Not == FALSE

\* consume() awaits the coroutine a handler returns before it goes on
\* ("if asyncio.iscoroutine(result): await result"); every handler the
\* agents register is an "async def".
AwaitsResult == TRUE

NoHandler_Raises(a, id) == ConsumeExit([a EXCEPT !.dropped = @ \cup {id}])

\* "if not handlers": a warning is logged and the loop continues with the
\* next record.
NoHandler(a, id) == NextRecord([a EXCEPT !.dropped = @ \cup {id}])

\* BaseAgent._log_event: one AgentEvent row with the message id as input
\* data and the given status.
LogEvent(log, i, id, status) ==
  Append(log, [agent |-> i, message_id |-> id, status |-> status])

\* BaseAgent._handle_message: counts the message, calls process(), counts
\* an exception of it, and logs one event with the outcome.  No statement
\* of the repository calls or registers it, so no action below applies it.
HandleMessage(a, log, i, id, raised) ==
  [a |-> [a EXCEPT !.messages_processed = @ + 1,
                   !.errors_count = IF raised THEN @ + 1 ELSE @],
   log |-> LogEvent(log, i, id, IF raised THEN "error" ELSE "success")]

HandlerFailed_Propagates(a, id) ==
  ConsumeExit([a EXCEPT !.errored = @ \cup {id}])

\* "except Exception": the handler's error is logged; the for loop over the
\* handlers goes on.  The functions consume() calls are the handlers the
\* agent registered, not BaseAgent._handle_message, which nothing calls: the
\* only statements that change state.errors_count and
\* state.messages_processed and the only calls of _log_event are in it, so
\* neither counter changes and no event record is written.
HandlerFailed(a, id) == [a EXCEPT !.errored = @ \cup {id}]

\* The for loop over the handlers of one message calls the next handler:
\* the agent after the call, and the invocations the call started.
CallHandlers(a, id, hs) ==
  IF hs = <<>> THEN [a |-> NextRecord(a), invs |-> {}]
  ELSE IF AwaitsResult
  THEN [a |-> [a EXCEPT !.runPc = "handling",
                        !.awaited = [id |-> id, handler |-> Head(hs)],
                        !.hqueue = Tail(hs)],
        invs |-> {[id |-> id, handler |-> Head(hs)]}]
  ELSE [a |-> NextRecord(a),
        invs |-> {[id |-> id, handler |-> hs[k]] : k \in 1..Len(hs)}]

\* The body of consume()'s loop for one record, up to its first suspension.
Dispatch(a, message) ==
  IF ~a.cRunning THEN [a |-> ConsumeExit(a), invs |-> {}]
  ELSE LET hs == HandlersFor(a.handlers, message.type)
           b == [a EXCEPT !.handlers = RegAfterDispatch(@, message.type)]
       IN IF hs = <<>>
          THEN [a |-> NoHandler(b, message.id), invs |-> {}]
          ELSE CallHandlers(b, message.id, hs)

\* The invocation history: how often each handler of each process was
\* called with each message.
Invoked(i, invs) ==
  [x \in DOMAIN invocations \cup {<<i, v.id, v.handler>> : v \in invs} |->
     (IF x \in DOMAIN invocations THEN invocations[x] ELSE 0)
     + (IF x[1] = i /\ [id |-> x[2], handler |-> x[3]] \in invs
        THEN 1 ELSE 0)]

\* How often the handler h of process i was called with message id.
Calls(i, id, h) ==
  IF <<i, id, h>> \in DOMAIN invocations THEN invocations[<<i, id, h>>]
  ELSE 0

\* The consumer returns the next record of a partition the process owns and
\* consume() dispatches it.
fetch(i, p) ==
  LET g == GroupId(i)
      a == agent[i]
  IN /\ a.runPc = "fetch"
     /\ a.joined
     /\ owner[g][p] = i
     /\ position[g][p] < Len(partLog[p])
     /\ LET d == Dispatch(a, partLog[p][position[g][p] + 1])
        IN /\ agent' = [agent EXCEPT ![i] = d.a]
           /\ inflight' = [inflight EXCEPT ![i] = @ \cup d.invs]
           /\ invocations' = Invoked(i, d.invs)
     /\ position' = [position EXCEPT ![g][p] = @ + 1]
     /\ UNCHANGED <<legVars, auxVars, partLog, committed, owner, sender, crashes>>

\* The iteration over a consumer that has been closed ends.
end_iteration(i) ==
  /\ agent[i].runPc = "fetch"
  /\ agent[i].cClosed
  /\ agent' = [agent EXCEPT ![i] = ConsumeExit(@)]
  /\ UNCHANGED <<legVars, auxVars, brokerVars, sender, inflight, invocations, crashes>>

\* A handler invocation ends, by returning or by raising; consume() goes on
\* when it is the one it awaits.
handler_done(i, inv, raised) ==
  LET a == agent[i]
      b == IF raised THEN HandlerFailed(a, inv.id) ELSE a
      d == IF inv # a.awaited
           THEN [a |-> IF raised
                       THEN [a EXCEPT !.errored = @ \cup {inv.id}] ELSE a,
                 invs |-> {}]
           ELSE IF b.runPc # "handling" THEN [a |-> b, invs |-> {}]
           ELSE CallHandlers(b, inv.id, b.hqueue)
  IN /\ inv \in inflight[i]
     /\ agent' = [agent EXCEPT ![i] = d.a]
     /\ inflight' = [inflight EXCEPT ![i] = (@ \ {inv}) \cup d.invs]
     /\ invocations' = Invoked(i, d.invs)
     /\ UNCHANGED <<legVars, auxVars, brokerVars, sender, crashes>>

\* A handler in flight calls send_message (emit_intelligence, emit_alert):
\* KafkaProducer.send starts the producer when it is not started, and the
\* envelope is published to the handler's output topic.
handler_send(i, inv) ==
  /\ inv \in inflight[i]
  /\ agent[i].producer # "none"
  /\ agent[i].sent < MaxAgentSends
  /\ agent' = [agent EXCEPT ![i] = [@ EXCEPT !.producer = "started",
                                             !.sent = @ + 1]]
  /\ UNCHANGED <<legVars, auxVars, brokerVars, sender, inflight, invocations,
                 crashes>>

Tasks == {"run", "sig"}

\* SIGTERM or SIGINT arrives: the handler run_agent installed creates a task
\* that runs agent.stop(), here up to its first suspension.
signal(i) ==
  /\ agent[i].runPc \notin {"new", "exited", "failed"}
  /\ agent[i].sigPc \in {"none", "done"}
  /\ agent' = [agent EXCEPT ![i] = StopBegin(@, "sig")]
  /\ UNCHANGED <<legVars, auxVars, brokerVars, sender, inflight, invocations, crashes>>

\* The AIOKafkaConsumer has stopped: it has committed its positions and left
\* the group; KafkaConsumer.stop clears _started and stop() goes on to the
\* producer.
consumer_stopped(i, task) ==
  LET g == GroupId(i)
  IN /\ PcOf(agent[i], task) = "stop_consumer"
     /\ agent' = [agent EXCEPT ![i] =
                    StopProducer([@ EXCEPT !.cStarted = FALSE,
                                           !.joined = FALSE], task)]
     /\ IF agent[i].joined
        THEN GroupChange(g, Members(g) \ {i}, Members(g))
        ELSE UNCHANGED <<committed, position, owner>>
     /\ UNCHANGED <<legVars, auxVars, partLog, sender, inflight, invocations, crashes>>

\* The AIOKafkaProducer has stopped: KafkaProducer.stop clears _started and
\* stop() returns.
producer_stopped(i, task) ==
  /\ PcOf(agent[i], task) = "stop_producer"
  /\ agent' = [agent EXCEPT ![i] =
                 SetPc([@ EXCEPT !.producer = "stopped"], task, "done")]
  /\ UNCHANGED <<legVars, auxVars, brokerVars, sender, inflight, invocations, crashes>>

\* run() has returned: run_agent returns and the process ends, with whatever
\* the stop() task of a signal still had to do left undone.
process_exit(i) ==
  LET g == GroupId(i)
  IN /\ agent[i].runPc = "done"
     /\ agent' = [agent EXCEPT ![i] = [@ EXCEPT !.runPc = "exited",
                                                !.sigPc = "done",
                                                !.joined = FALSE]]
     /\ inflight' = [inflight EXCEPT ![i] = {}]
     /\ IF agent[i].joined
        THEN GroupChange(g, Members(g) \ {i}, Members(g) \ {i})
        ELSE UNCHANGED <<committed, position, owner>>
     /\ UNCHANGED <<legVars, auxVars, partLog, sender, invocations, crashes>>

\* The process is killed and started again: everything it held in memory is
\* gone, the broker removes it from its group, and run() starts anew.
crash(i) ==
  LET g == GroupId(i)
  IN /\ crashes < MaxCrashes
     /\ agent[i].runPc \notin {"new", "exited", "failed"}
     /\ crashes' = crashes + 1
     /\ agent' = [agent EXCEPT ![i] = AgentInit]
     /\ inflight' = [inflight EXCEPT ![i] = {}]
     /\ IF agent[i].joined
        THEN GroupChange(g, Members(g) \ {i}, Members(g) \ {i})
        ELSE UNCHANGED <<committed, position, owner>>
     /\ UNCHANGED <<legVars, auxVars, partLog, sender, invocations>>

\* enable_auto_commit: the consumer's background task commits the positions
\* of the partitions the process owns (every auto_commit_interval_ms).
auto_commit(i) ==
  LET g == GroupId(i)
      com == [p \in Partitions |->
                IF owner[g][p] = i THEN position[g][p] ELSE committed[g][p]]
  IN /\ agent[i].joined
     /\ com # committed[g]
     /\ committed' = [committed EXCEPT ![g] = com]
     /\ UNCHANGED <<legVars, auxVars, partLog, position, owner, sender, agent,
                    inflight, invocations, crashes>>

\* shutdown_producer: the API's producer is stopped and dropped; the next
\* get_producer creates a new one.
shutdown_producer ==
  /\ sender.started
  /\ sender' = [sender EXCEPT !.started = FALSE]
  /\ UNCHANGED <<legVars, auxVars, brokerVars, agent, inflight, invocations, crashes>>

\* The API's producer with a broker that may fail.
NextSend ==
  \/ \E type \in MessageTypes, p \in Partitions, outcome \in SendOutcomes :
       send(type, p, outcome)
  \/ shutdown_producer

SpecSend == Init /\ [][NextSend]_vars

\* One agent process with its broker: start, consume, signals, crashes.
NextMsg ==
  \/ \E type \in MessageTypes, p \in Partitions : send(type, p, "acked")
  \/ run_start(1)
  \/ producer_started(1)
  \/ consumer_started(1)
  \/ on_start_done(1)
  \/ consumer_restarted(1)
  \/ \E p \in Partitions : fetch(1, p)
  \/ end_iteration(1)
  \/ \E inv \in inflight[1], raised \in BOOLEAN : handler_done(1, inv, raised)
  \/ signal(1)
  \/ \E task \in Tasks : consumer_stopped(1, task)
  \/ \E task \in Tasks : producer_stopped(1, task)
  \/ process_exit(1)
  \/ crash(1)
  \/ auto_commit(1)

SpecMsg == Init /\ [][NextMsg]_vars

\* One monitoring process whose startup may fail, without kills.
NextStart ==
  \/ \E type \in MessageTypes, p \in Partitions : send(type, p, "acked")
  \/ run_start(1)
  \/ producer_start_fails(1)
  \/ producer_started(1)
  \/ consumer_start_fails(1)
  \/ consumer_started(1)
  \/ on_start_done(1)
  \/ consumer_restarted(1)
  \/ \E p \in Partitions : fetch(1, p)
  \/ end_iteration(1)
  \/ \E inv \in inflight[1], raised \in BOOLEAN : handler_done(1, inv, raised)
  \/ signal(1)
  \/ \E task \in Tasks : consumer_stopped(1, task)
  \/ \E task \in Tasks : producer_stopped(1, task)
  \/ process_exit(1)

SpecStart == Init /\ [][NextStart]_vars

\* The steps of a process that the event loop, the broker and the handlers
\* take on their own: startup, delivery of the next record, the end of a
\* handler invocation.
AgentStep(i) ==
  \/ run_start(i)
  \/ producer_started(i)
  \/ consumer_started(i)
  \/ on_start_done(i)
  \/ \E p \in Partitions : fetch(i, p)
  \/ \E inv \in inflight[i], raised \in BOOLEAN : handler_done(i, inv, raised)

\* One agent process that is killed and restarted, never stopped.
NextCrash ==
  \/ \E type \in MessageTypes, p \in Partitions : send(type, p, "acked")
  \/ AgentStep(1)
  \/ crash(1)
  \/ auto_commit(1)

\* A ready task is run by the event loop, a started consumer is handed the
\* records of its partitions, a handler invocation ends, and a killed
\* process is started again.
SpecCrash == Init /\ [][NextCrash]_vars /\ WF_vars(AgentStep(1))

\* What the event loop, the broker and the handlers do on their own once a
\* process runs: the steps of AgentStep and those of a stop() under way.
LifecycleStep(i) ==
  \/ AgentStep(i)
  \/ consumer_restarted(i)
  \/ end_iteration(i)
  \/ \E task \in Tasks : consumer_stopped(i, task)
  \/ \E task \in Tasks : producer_stopped(i, task)
  \/ process_exit(i)

\* One agent process that is sent signals, never killed.
NextStop ==
  \/ \E type \in MessageTypes, p \in Partitions : send(type, p, "acked")
  \/ LifecycleStep(1)
  \/ signal(1)
  \/ auto_commit(1)

\* A ready task is run by the event loop, the broker answers a start, a stop
\* and a fetch, and every handler invocation ends.
SpecStop == Init /\ [][NextStop]_vars /\ WF_vars(LifecycleStep(1))

\* One agent process that is sent signals and whose handlers publish.
NextPub ==
  \/ \E type \in MessageTypes, p \in Partitions : send(type, p, "acked")
  \/ LifecycleStep(1)
  \/ \E inv \in inflight[1] : handler_send(1, inv)
  \/ signal(1)

SpecPub == Init /\ [][NextPub]_vars

\* The three agent processes in operation without failures: every send is
\* acknowledged, no handler raises, no process stops or crashes.
NextGroup ==
  \/ \E type \in MessageTypes, p \in Partitions : send(type, p, "acked")
  \/ \E i \in Instances :
       \/ run_start(i)
       \/ producer_started(i)
       \/ consumer_started(i)
       \/ on_start_done(i)
       \/ \E p \in Partitions : fetch(i, p)
       \/ \E inv \in inflight[i] : handler_done(i, inv, FALSE)
       \/ auto_commit(i)

SpecGroup == Init /\ [][NextGroup]_vars

\* The two MonitoringAgent processes, one consumer group, in operation
\* without failures.
NextOrder ==
  \/ \E type \in MessageTypes, p \in Partitions : send(type, p, "acked")
  \/ \E i \in {j \in Instances : GroupId(j) = GroupId(1)} :
       \/ run_start(i)
       \/ producer_started(i)
       \/ consumer_started(i)
       \/ on_start_done(i)
       \/ \E p \in Partitions : fetch(i, p)
       \/ \E inv \in inflight[i] : handler_done(i, inv, FALSE)
       \/ auto_commit(i)

SpecOrder == Init /\ [][NextOrder]_vars

----------------------------------------------------------------------------
(* Handler registration *)

\* BaseAgent.register_handler: self._handlers[message_type] = func.
AgentRegister(declared, type, fn) ==
  [k \in DOMAIN declared \cup {type} |->
     IF k = type THEN fn ELSE declared[k]]

ConsumerRegister_Replace(table, type, fn) ==
  [k \in DOMAIN table \cup {type} |-> IF k = type THEN <<fn>> ELSE table[k]]

\* KafkaConsumer.register_handler: the list of the type is created when
\* missing and the handler appended to it.
ConsumerRegister(table, type, fn) ==
  [k \in DOMAIN table \cup {type} |->
     IF k = type THEN TypedHandlers(table, type) \o <<fn>> ELSE table[k]]

\* BaseAgent.start, "for message_type, handler in self._handlers.items()":
\* every declared handler is registered with the new subscriber.
RegisterDeclared(declared) ==
  LET reg[K \in SUBSET DOMAIN declared] ==
        IF K = {} THEN <<>>
        ELSE LET k == CHOOSE x \in K : TRUE
             IN ConsumerRegister(reg[K \ {k}], k, declared[k])
  IN reg[DOMAIN declared]

\* agent.register_handler(type, fn) on the agent object.
agent_register_handler(type, fn) ==
  /\ registry.regs < MaxRegs
  /\ registry' = [registry EXCEPT
       !.declared = AgentRegister(@, type, fn),
       !.last = [api |-> "agent", type |-> type, fn |-> fn],
       !.regs = @ + 1]
  /\ UNCHANGED <<legVars, brokerVars, sender, agent, inflight, invocations,
                 crashes, auditLog, looper, bus>>

\* The registration loop of BaseAgent.start on the subscriber it created.
start_registers ==
  /\ ~registry.started
  /\ registry' = [registry EXCEPT
       !.started = TRUE,
       !.table = RegisterDeclared(registry.declared),
       !.history = RegisterDeclared(registry.declared)]
  /\ UNCHANGED <<legVars, brokerVars, sender, agent, inflight, invocations,
                 crashes, auditLog, looper, bus>>

\* consumer.register_handler(type, fn) on the subscriber.
consumer_register_handler(type, fn) ==
  /\ registry.started
  /\ registry.regs < MaxRegs
  /\ registry' = [registry EXCEPT
       !.table = ConsumerRegister(@, type, fn),
       !.history = [k \in DOMAIN @ \cup {type} |->
                      IF k = type
                      THEN TypedHandlers(registry.history, type) \o <<fn>>
                      ELSE @[k]],
       !.last = [api |-> "consumer", type |-> type, fn |-> fn],
       !.regs = @ + 1]
  /\ UNCHANGED <<legVars, brokerVars, sender, agent, inflight, invocations,
                 crashes, auditLog, looper, bus>>

\* consume() dispatches one message of the given type: it calls the
\* functions of the list it computed, one after the other.
dispatch(type) ==
  /\ registry.started
  /\ registry.dispatches < MaxDispatches
  /\ registry' = [registry EXCEPT
       !.dispatches = @ + 1,
       !.dtype = type,
       !.called = HandlersFor(registry.table, type),
       !.table = RegAfterDispatch(@, type),
       !.last = NoReg]
  /\ UNCHANGED <<legVars, brokerVars, sender, agent, inflight, invocations,
                 crashes, auditLog, looper, bus>>

\* Registrations on an agent and on its subscriber, and dispatches.
NextReg ==
  \/ \E type \in RegTypes, fn \in HandlerFns : agent_register_handler(type, fn)
  \/ start_registers
  \/ \E type \in RegTypes, fn \in HandlerFns :
       consumer_register_handler(type, fn)
  \/ \E type \in RegTypes \ {Wildcard} : dispatch(type)

SpecReg == Init /\ [][NextReg]_vars

----------------------------------------------------------------------------
(* An agent without consumed topics: the periodic loop of run() *)

loopOthers ==
  <<legVars, brokerVars, sender, agent, inflight, invocations, crashes,
    auditLog, registry, bus>>

\* "await self._periodic_task()": one more invocation of the hook.
PeriodicCall(l) ==
  [l EXCEPT !.a = [@ EXCEPT !.runPc = "periodic"],
            !.ticks = IF @ < MaxTicks THEN @ + 1 ELSE @]

\* "while self._running": the hook is called when the flag is set; otherwise
\* the loop ends and run()'s finally calls stop().
LoopTest(l) ==
  IF l.a.running THEN PeriodicCall(l)
  ELSE [l EXCEPT !.a = StopBegin(l.a, "run")]

\* run() -> start(): status, the producer is created and its start awaited.
loop_run_start ==
  /\ looper.a.runPc = "new"
  /\ looper' = [looper EXCEPT !.a = [@ EXCEPT !.status = "initializing",
                                              !.producer = "created",
                                              !.runPc = "start_producer"]]
  /\ UNCHANGED loopOthers

\* start(): the producer has started; CONSUME_TOPICS is empty, so no
\* consumer is created; the agent is running, and run() tests the flag.
loop_producer_started ==
  /\ looper.a.runPc = "start_producer"
  /\ looper' = LoopTest([looper EXCEPT !.a = [@ EXCEPT !.producer = "started",
                                                       !.status = "running",
                                                       !.running = TRUE]])
  /\ UNCHANGED loopOthers

\* start(): "await self._producer.start()" raises (broker unreachable); the
\* exception leaves start() and run(), whose try it precedes.
loop_producer_start_fails ==
  /\ looper.a.runPc = "start_producer"
  /\ looper' = [looper EXCEPT !.a = [@ EXCEPT !.runPc = "failed"]]
  /\ UNCHANGED loopOthers

\* _periodic_task has returned; run() sleeps for one second.
loop_periodic_done ==
  /\ looper.a.runPc = "periodic"
  /\ looper' = [looper EXCEPT !.a = [@ EXCEPT !.runPc = "sleep"]]
  /\ UNCHANGED loopOthers

\* The second is over; run() tests the flag again.
loop_sleep_done ==
  /\ looper.a.runPc = "sleep"
  /\ looper' = LoopTest(looper)
  /\ UNCHANGED loopOthers

\* SIGTERM or SIGINT arrives: a task runs agent.stop().
loop_signal ==
  /\ looper.a.runPc \notin {"new", "exited", "failed"}
  /\ looper.a.sigPc \in {"none", "done"}
  /\ looper' = [looper EXCEPT !.a = StopBegin(@, "sig")]
  /\ UNCHANGED loopOthers

\* The AIOKafkaProducer has stopped; stop() returns.
loop_producer_stopped(task) ==
  /\ PcOf(looper.a, task) = "stop_producer"
  /\ looper' = [looper EXCEPT !.a =
                  SetPc([@ EXCEPT !.producer = "stopped"], task, "done")]
  /\ UNCHANGED loopOthers

\* run() has returned: the process ends.
loop_exit ==
  /\ looper.a.runPc = "done"
  /\ looper' = [looper EXCEPT !.a = [@ EXCEPT !.runPc = "exited",
                                              !.sigPc = "done"]]
  /\ UNCHANGED loopOthers

\* What the event loop runs without anything arriving from outside.
LoopStep ==
  \/ loop_run_start
  \/ loop_producer_started
  \/ loop_periodic_done
  \/ loop_sleep_done
  \/ \E task \in Tasks : loop_producer_stopped(task)
  \/ loop_exit

NextLoop ==
  \/ LoopStep
  \/ loop_producer_start_fails
  \/ loop_signal

\* The event loop runs every task that is ready, and the broker answers.
SpecLoop == Init /\ [][NextLoop]_vars /\ WF_vars(LoopStep)

----------------------------------------------------------------------------
(* A FeedbackAgent under run(): a class with consumed topics and a
   _periodic_task *)

\* FeedbackAgent.CONSUME_TOPICS.
FeedbackTopics == {"feedback", "events", "commands"}

\* start() after "self._running = True" (_on_start is the empty hook), then
\* run()'s try: consume() when there is a consumer, else the periodic loop.
RunBody(l) ==
  LET r == [l EXCEPT !.a = [@ EXCEPT !.status = "running", !.running = TRUE]]
  IN IF r.a.consumer THEN [r EXCEPT !.a = ConsumeEntry(@)] ELSE LoopTest(r)

\* start() after the producer has started: "if self.CONSUME_TOPICS" creates
\* the consumer and awaits its start.
ProducerStarted(l, topics) ==
  IF topics # {}
  THEN [l EXCEPT !.a = [@ EXCEPT !.producer = "started", !.consumer = TRUE,
                                 !.runPc = "start_consumer"]]
  ELSE RunBody([l EXCEPT !.a = [@ EXCEPT !.producer = "started"]])

fb_producer_started ==
  /\ looper.a.runPc = "start_producer"
  /\ looper' = ProducerStarted(looper, FeedbackTopics)
  /\ UNCHANGED loopOthers

\* start(): the consumer has started; the agent is running and run() goes on.
fb_consumer_started ==
  /\ looper.a.runPc = "start_consumer"
  /\ looper' = RunBody([looper EXCEPT !.a = [@ EXCEPT !.cStarted = TRUE]])
  /\ UNCHANGED loopOthers

\* "await self._consumer.start()" raises: the exception leaves run().
fb_consumer_start_fails ==
  /\ looper.a.runPc = "start_consumer"
  /\ looper' = [looper EXCEPT !.a = [@ EXCEPT !.runPc = "failed"]]
  /\ UNCHANGED loopOthers

\* A record arrives on one of the topics; "if not self._running: break"
\* ends consume(), otherwise its handlers are called.
fb_record ==
  /\ looper.a.runPc = "fetch"
  /\ ~looper.a.cClosed
  /\ looper' = [looper EXCEPT
                  !.a = IF @.cRunning THEN [@ EXCEPT !.runPc = "handling"]
                        ELSE ConsumeExit(@),
                  !.records = IF @ < MaxRecords THEN @ + 1 ELSE @]
  /\ UNCHANGED loopOthers

\* The handlers of the record have returned; consume() asks for the next.
fb_handled ==
  /\ looper.a.runPc = "handling"
  /\ looper' = [looper EXCEPT !.a = NextRecord(@)]
  /\ UNCHANGED loopOthers

\* The iteration over a consumer that has been closed ends.
fb_end_iteration ==
  /\ looper.a.runPc = "fetch"
  /\ looper.a.cClosed
  /\ looper' = [looper EXCEPT !.a = ConsumeExit(@)]
  /\ UNCHANGED loopOthers

\* The AIOKafkaConsumer has stopped; stop() goes on to the producer.
fb_consumer_stopped(task) ==
  /\ PcOf(looper.a, task) = "stop_consumer"
  /\ looper' = [looper EXCEPT !.a =
                  StopProducer([@ EXCEPT !.cStarted = FALSE], task)]
  /\ UNCHANGED loopOthers

\* What the event loop runs without anything arriving from outside.
FeedbackStep ==
  \/ loop_run_start
  \/ fb_producer_started
  \/ fb_consumer_started
  \/ fb_handled
  \/ fb_end_iteration
  \/ \E task \in Tasks : fb_consumer_stopped(task)
  \/ \E task \in Tasks : loop_producer_stopped(task)
  \/ loop_exit

NextFeedback ==
  \/ FeedbackStep
  \/ loop_producer_start_fails
  \/ fb_consumer_start_fails
  \/ fb_record
  \/ loop_signal

\* The event loop runs every task that is ready, and the broker answers.
SpecFeedback == Init /\ [][NextFeedback]_vars /\ WF_vars(FeedbackStep)

----------------------------------------------------------------------------
(* Topics between the agents: who gets an analysis request *)

busOthers ==
  <<legVars, brokerVars, sender, agent, inflight, invocations, crashes,
    auditLog, registry, looper>>

\* An envelope of the given type is published to the topic; envelopes are
\* numbered in the order they are published.
Publish(b, topic, type) ==
  [b EXCEPT !.log[topic] =
     Append(@, [id |-> Len(b.log["intelligence"]) + Len(b.log["analysis"]) + 1,
                type |-> type])]

\* BaseAgent.request_analysis and KafkaProducer.send_analysis_request: an
\* analysis_request goes to Topics.ANALYSIS.
request_analysis ==
  /\ bus.sent < MaxBusMsgs
  /\ bus' = [Publish(bus, "analysis", "analysis_request") EXCEPT !.sent = @ + 1]
  /\ UNCHANGED busOthers

\* BaseAgent.emit_intelligence: an intelligence_item goes to
\* Topics.INTELLIGENCE.
emit_intelligence ==
  /\ bus.sent < MaxBusMsgs
  /\ bus' = [Publish(bus, "intelligence", "intelligence_item")
                EXCEPT !.sent = @ + 1]
  /\ UNCHANGED busOthers

\* The running agent of class c consumes the next envelope of a topic it
\* subscribed to: consume() calls the handler of its type, or drops it with
\* a warning when the class registered none.  The analysis agent's
\* intelligence_item handler publishes intelligence_analyzed to
\* Topics.ANALYSIS when it finds the item (found).
deliver(c, topic, found) ==
  /\ topic \in CONSUME_TOPICS(c)
  /\ bus.pos[c][topic] < Len(bus.log[topic])
  /\ LET m == bus.log[topic][bus.pos[c][topic] + 1]
         consumed == [bus EXCEPT
           !.pos[c][topic] = @ + 1,
           !.called = IF m.type \in ClassHandlers(c)
                      THEN @ \cup {<<c, m.id, m.type>>} ELSE @,
           !.dropped = IF m.type \in ClassHandlers(c)
                       THEN @ ELSE @ \cup {<<c, m.id>>}]
     IN bus' = IF c = "analysis" /\ m.type = "intelligence_item" /\ found
               THEN Publish(consumed, "analysis", "intelligence_analyzed")
               ELSE consumed
  /\ UNCHANGED busOthers

\* Running analysis and strategy agents, and agents publishing to them.
NextBus ==
  \/ request_analysis
  \/ emit_intelligence
  \/ \E c \in BusClasses, topic \in BusTopics, found \in BOOLEAN :
       deliver(c, topic, found)

SpecBus == Init /\ [][NextBus]_vars

----------------------------------------------------------------------------
(* Properties *)

\* The record a call made now would load.
Persisted == LoadState(stateFile)

\* Every gate bound to the current state of the record is approved.
GatesApproved(state) ==
  \A g \in GateIds :
    REVIEW_GATES[g].from_state = state.current_state
      => GateStatus(state, g) = "approved"

IsPrefix(s, t) == Len(s) <= Len(t) /\ SubSeq(t, 1, Len(s)) = s

\* C1: gate before advance.  A successful advance, and with it every move
\* of current_state made by an advance, acts on a record in which every gate
\* bound to the current state is approved.
C1_GateBeforeAdvance ==
  [][(response'.op = "advance"
        /\ (response'.status_code = 200
              \/ Persisted'.current_state /= Persisted.current_state))
       => GatesApproved(Persisted)]_vars

\* An advance has left the gated state FINAL_EVT.
C1_Witness ==
  /\ response.op = "advance"
  /\ response.status_code = 200
  /\ response.body.current_state = "IMPL_EVT"
  /\ GateStatus(Persisted, "HR_RELEASE") = "approved"

\* A save of an advance or approve_gate call on some worker.
IsSaveStep == \E p \in Workers : pc[p] = "loaded" /\ pc'[p] /= "loaded"

\* C2: the mutating calls are atomic, so no successful call's update is
\* lost: the save of an advance or approve_gate call keeps every transition
\* and every gate approval persisted just before it, and moves current_state
\* by at most one step forward.
C2_NoLostUpdate ==
  [][IsSaveStep =>
       /\ IsPrefix(Persisted.transitions, Persisted'.transitions)
       /\ \A g \in GateIds :
            GateStatus(Persisted, g) = "approved"
              => GateStatus(Persisted', g) = "approved"
       /\ StateIndex(Persisted'.current_state)
            \in {StateIndex(Persisted.current_state),
                 StateIndex(Persisted.current_state) + 1}]_vars

\* C3: without reset, current_state stays one of the six states and every
\* change moves it to its immediate successor in STATE_ORDER.
C3_ForwardOneStep ==
  [][response'.op /= "reset" =>
       /\ Persisted'.current_state \in LegislativeState
       /\ \/ Persisted'.current_state = Persisted.current_state
          \/ StateIndex(Persisted'.current_state)
               = StateIndex(Persisted.current_state) + 1]_vars

\* Advances, one of them failing on a gate before, have reached FLOOR_EVT.
C3_Witness ==
  /\ response.op = "advance"
  /\ response.status_code = 200
  /\ Persisted.current_state = "FLOOR_EVT"
  /\ Len(Persisted.transitions) = 3

\* C4: in a non-terminal state advance fails with the gate error iff a gate
\* bound to current_state is not approved, and succeeds otherwise.
C4_GateErrorIff ==
  [][(response'.op = "advance" /\ Persisted.current_state /= "IMPL_EVT") =>
       /\ (response'.status_code = 400 /\ response'.detail = "gate_not_approved")
            <=> ~GatesApproved(Persisted)
       /\ GatesApproved(Persisted) =>
            /\ response'.status_code = 200
            /\ StateIndex(Persisted'.current_state)
                 = StateIndex(Persisted.current_state) + 1]_vars

\* An advance has failed on the pending gate of COMM_EVT.
C4_Witness ==
  /\ response.op = "advance"
  /\ response.status_code = 400
  /\ response.detail = "gate_not_approved"
  /\ response.gate_id = "HR_LANG"
  /\ Persisted.current_state = "COMM_EVT"

\* C5: approve_gate fails for a gate whose from_state is not current_state
\* and changes nothing; a gate becomes approved only while its from_state is
\* the current state.
C5_ApproveOnlyActive ==
  [][/\ (/\ response'.op = "approve_gate"
         /\ response'.gate_id \in GateIds
         /\ REVIEW_GATES[response'.gate_id].from_state
              /= Persisted.current_state)
        => /\ response'.status_code = 400
           /\ response'.detail = "gate_not_active"
           /\ Persisted' = Persisted
     /\ \A g \in GateIds :
          (GateStatus(Persisted, g) /= "approved"
             /\ GateStatus(Persisted', g) = "approved")
            => REVIEW_GATES[g].from_state = Persisted.current_state]_vars

\* approve_gate has been refused for the gate of a past phase.
C5_Witness ==
  /\ response.op = "approve_gate"
  /\ response.detail = "gate_not_active"
  /\ response.gate_id = "HR_PRE"
  /\ Persisted.current_state = "COMM_EVT"

\* C6: approval is permanent.  No call other than reset takes a gate from
\* approved to any other status.
C6_ApprovalPermanent ==
  [][response'.op /= "reset" =>
       \A g \in GateIds :
         GateStatus(Persisted, g) = "approved"
           => GateStatus(Persisted', g) = "approved"]_vars

\* The first gate is still approved after later approvals and advances.
C6_Witness ==
  /\ Persisted.current_state = "FINAL_EVT"
  /\ GateStatus(Persisted, "HR_PRE") = "approved"
  /\ GateStatus(Persisted, "HR_RELEASE") = "approved"

\* C7: at IMPL_EVT every advance fails with the final-state error, which is
\* not the gate error, and current_state stays IMPL_EVT; no gate has
\* IMPL_EVT as its from_state.
C7_TerminalAdvanceFails ==
  [][(response'.op = "advance" /\ Persisted.current_state = "IMPL_EVT") =>
       /\ response'.status_code = 400
       /\ response'.detail = "final_state"
       /\ response'.detail /= "gate_not_approved"
       /\ Persisted'.current_state = "IMPL_EVT"
       /\ \A g \in GateIds : REVIEW_GATES[g].from_state /= "IMPL_EVT"]_vars

\* An advance has been refused at the terminal state.
C7_Witness ==
  /\ response.op = "advance"
  /\ response.detail = "final_state"
  /\ Persisted.current_state = "IMPL_EVT"

\* The log is a contiguous chain from PRE_EVT to current_state.
ChainOK(state) ==
  /\ Len(state.transitions) = StateIndex(state.current_state)
  /\ \A i \in 1..Len(state.transitions) :
       /\ state.transitions[i].from_state = StateAt(i - 1)
       /\ state.transitions[i].to_state = StateAt(i)

\* C8: between resets the transitions log is append-only and linear: a
\* successful advance appends one record from the state before to the state
\* after, every other call leaves the log as it is, and the log is always a
\* contiguous chain from PRE_EVT to current_state.
C8_AppendOnlyLog ==
  /\ []ChainOK(Persisted)
  /\ [][response'.op /= "reset" =>
          IF response'.op = "advance" /\ response'.status_code = 200
          THEN /\ Len(Persisted'.transitions) = Len(Persisted.transitions) + 1
               /\ IsPrefix(Persisted.transitions, Persisted'.transitions)
               /\ LET t == Persisted'.transitions[Len(Persisted'.transitions)]
                  IN /\ t.from_state = Persisted.current_state
                     /\ t.to_state = Persisted'.current_state
          ELSE Persisted'.transitions = Persisted.transitions]_vars

\* A failing advance has left a log of two records as it was.
C8_Witness ==
  /\ response.op = "advance"
  /\ response.status_code = 400
  /\ Len(Persisted.transitions) = 2
  /\ Persisted.transitions[2].to_state = "COMM_EVT"

\* C9: reset leaves PRE_EVT with an empty log and an empty gates map, so
\* every gate reads as pending and an advance needs a fresh approval.
C9_ResetRestoresDefault ==
  [][response'.op = "reset" =>
       /\ Persisted'.current_state = "PRE_EVT"
       /\ Persisted'.transitions = <<>>
       /\ DOMAIN Persisted'.gates = {}
       /\ \A g \in GateIds : GateStatus(Persisted', g) = "pending"
       /\ \A a \in Approvers :
            AdvanceOn(Persisted', a).detail = "gate_not_approved"]_vars

\* A reset has been made and the record is the default one.
C9_Witness ==
  /\ response.op = "reset"
  /\ response.status_code = 200
  /\ stateFile = <<DefaultState>>

\* C10: get_current_state agrees with advance: it reports can_advance with
\* no pending gate exactly when an advance made on the same record succeeds.
C10_StateInfoAgreesWithAdvance ==
  /\ \A a \in Approvers :
       (StateInfo(Persisted).can_advance
          /\ StateInfo(Persisted).pending_gate = "None")
         <=> AdvanceOn(Persisted, a).ok
  /\ response.op = "get_current_state" =>
       \A a \in Approvers :
         response.body.can_advance <=> AdvanceOn(Persisted, a).ok

\* get_current_state has reported the terminal state as not advanceable.
C10_Witness ==
  /\ response.op = "get_current_state"
  /\ response.body.current_state = "IMPL_EVT"
  /\ response.body.can_advance = FALSE
  /\ response.body.pending_gate = "None"

\* C11 as stated: a first advance on the initial record, with no approval
\* before it, succeeds and leaves current_state at INTRO_EVT.
C11_FirstAdvanceSucceeds ==
  [][(response'.op = "advance" /\ Persisted = DefaultState) =>
       /\ response'.status_code = 200
       /\ Persisted'.current_state = "INTRO_EVT"]_vars

\* C11 as amended: gate HR_PRE is bound to PRE_EVT -> INTRO_EVT, so a first
\* advance on the initial record fails with the gate error for HR_PRE and
\* current_state stays PRE_EVT; once HR_PRE is approved the advance succeeds
\* and current_state becomes INTRO_EVT.
C11_FirstAdvanceNeedsGate ==
  [][response'.op = "advance" =>
       /\ Persisted = DefaultState =>
            /\ response'.status_code = 400
            /\ response'.detail = "gate_not_approved"
            /\ response'.gate_id = "HR_PRE"
            /\ Persisted'.current_state = "PRE_EVT"
       /\ (/\ Persisted.current_state = "PRE_EVT"
           /\ GateStatus(Persisted, "HR_PRE") = "approved") =>
            /\ response'.status_code = 200
            /\ Persisted'.current_state = "INTRO_EVT"]_vars

\* The first advance has been refused on the initial record.
C11_Witness ==
  /\ response.op = "advance"
  /\ response.detail = "gate_not_approved"
  /\ response.gate_id = "HR_PRE"
  /\ stateFile = <<DefaultState>>

\* C12 as stated: no transition record carries an approved_by.
C12_ApprovedByAbsent ==
  \A i \in 1..Len(Persisted.transitions) :
    Persisted.transitions[i].approved_by = "None"

\* C12 as amended: every transition record carries the approved_by of the
\* advance request that appended it; the approver of the gate is recorded
\* on the gate record, separately, and need not be the same.
C12_ApprovedByRecorded ==
  /\ [](\A i \in 1..Len(Persisted.transitions) :
          Persisted.transitions[i].approved_by \in Approvers)
  /\ [][(response'.op = "advance" /\ response'.status_code = 200) =>
          Persisted'.transitions[Len(Persisted'.transitions)].approved_by
            = response'.approved_by]_vars

\* A gated step approved by alice was advanced, and recorded, by bob.
C12_Witness ==
  /\ Len(Persisted.transitions) >= 3
  /\ Persisted.transitions[3].from_state = "COMM_EVT"
  /\ Persisted.transitions[3].approved_by = "bob"
  /\ GateApprovedBy(Persisted, "HR_LANG") = "alice"


\* C29: every review gate whose from_state comes strictly before
\* current_state in STATE_ORDER is approved in the persisted record, with a
\* recorded approver.
C29_PassedGatesApproved ==
  \A g \in GateIds :
    StateIndex(REVIEW_GATES[g].from_state)
      < StateIndex(Persisted.current_state)
    => /\ GateStatus(Persisted, g) = "approved"
       /\ GateApprovedBy(Persisted, g) \in Approvers

\* The record is at IMPL_EVT and all four gates carry an approver.
C29_Witness ==
  /\ Persisted.current_state = "IMPL_EVT"
  /\ \A g \in GateIds : GateApprovedBy(Persisted, g) \in Approvers
  /\ Len(Persisted.transitions) = 5

\* C30: with advance and approve_gate calls running concurrently, no step
\* other than a reset moves the persisted current_state to an earlier state
\* of STATE_ORDER or removes a recorded transition.
C30_NoRegression ==
  [][response'.op /= "reset" =>
       /\ StateIndex(Persisted'.current_state)
            >= StateIndex(Persisted.current_state)
       /\ Len(Persisted'.transitions) >= Len(Persisted.transitions)]_vars

----------------------------------------------------------------------------
(* Properties of the messaging substrate *)

\* The group's consumer has been handed the envelope m: its position in m's
\* partition is past m.
Consumed(g, m) ==
  \E k \in 1..position[g][m.partition] : partLog[m.partition][k].id = m.id

\* Process i has run without a crash and without a stop so far.
NoFailure(i) == crashes = 0 /\ ~agent[i].stopBegun

\* C13: while a process runs without failure, every envelope of the consumed
\* topic whose type the process has a handler for is dispatched to the
\* handler registered for that type exactly once as soon as the consumer has
\* returned it (and not before), and no handler is ever called with an
\* envelope of another type than the one it is registered for.
C13_DispatchedExactlyOnce ==
  /\ \A x \in DOMAIN invocations :
       \E m \in Published : m.id = x[2] /\ m.type = x[3]
  /\ NoFailure(1) =>
       \A m \in Published :
         m.type \in RegisteredTypes(1) =>
           Calls(1, m.id, m.type) =
             (IF Consumed(GroupId(1), m) THEN 1 ELSE 0)

\* A scan_command and a later one of the same partition have both been
\* dispatched, once each, by a process that never failed.
C13_Witness ==
  /\ NoFailure(1)
  /\ \E p \in Partitions :
       /\ Len(partLog[p]) = 2
       /\ position[GroupId(1)][p] = 2
       /\ \A k \in 1..2 :
            /\ partLog[p][k].type = "scan_command"
            /\ Calls(1, partLog[p][k].id, "scan_command") = 1


\* The second envelope of partition p has been dispatched once, and the
\* first envelope of that partition is in the given log of the process.
NextDispatched(p, log) ==
  /\ Len(partLog[p]) = 2
  /\ partLog[p][1].id \in log
  /\ partLog[p][2].type = "scan_command"
  /\ Calls(1, partLog[p][2].id, "scan_command") = 1

\* C14: a handler that raises does not end consume(): in the step in which
\* the error is logged the loop stays in operation (it goes on to the next
\* handler or the next record, _running and the agent's status are
\* untouched) unless the consumer has been closed by a stop(); and in a
\* process without failure every handled envelope that follows an envelope
\* whose handler raised is still dispatched exactly once.
C14_HandlerErrorIsolated ==
  /\ [][(/\ agent'[1].errored # agent[1].errored
         /\ agent[1].errored \subseteq agent'[1].errored
         /\ ~agent[1].cClosed)
        => /\ agent'[1].runPc \in {"fetch", "handling"}
           /\ agent'[1].cRunning = agent[1].cRunning
           /\ agent'[1].running = agent[1].running
           /\ agent'[1].status = agent[1].status]_vars
  /\ [](NoFailure(1) =>
          \A p \in Partitions :
            \A j \in 1..position[GroupId(1)][p] :
              (/\ partLog[p][j].type \in RegisteredTypes(1)
               /\ \E k \in 1..(j - 1) : partLog[p][k].id \in agent[1].errored)
              => Calls(1, partLog[p][j].id, partLog[p][j].type) = 1)

\* The handler of the first envelope of a partition raised, and the second
\* envelope of that partition has been dispatched by the same run.
C14_Witness ==
  /\ NoFailure(1)
  /\ \E p \in Partitions : NextDispatched(p, agent[1].errored)

\* C15: an envelope whose type has no handler is dropped without error: in
\* the step in which the warning is logged no handler is called, nothing is
\* logged as a handler error and the loop stays in operation, waiting for
\* the next record; no handler is ever called with such an envelope; and in
\* a process without failure every handled envelope that follows a dropped
\* one is still dispatched exactly once.
C15_NoHandlerDropped ==
  /\ [][(/\ agent'[1].dropped # agent[1].dropped
         /\ agent[1].dropped \subseteq agent'[1].dropped)
        => /\ agent'[1].runPc = "fetch"
           /\ agent'[1].cRunning = agent[1].cRunning
           /\ agent'[1].status = agent[1].status
           /\ agent'[1].errored = agent[1].errored
           /\ inflight' = inflight
           /\ invocations' = invocations]_vars
  /\ [](\A m \in Published :
          m.type \notin RegisteredTypes(1) =>
            \A x \in DOMAIN invocations : ~(x[1] = 1 /\ x[2] = m.id))
  /\ [](NoFailure(1) =>
          \A p \in Partitions :
            \A j \in 1..position[GroupId(1)][p] :
              (/\ partLog[p][j].type \in RegisteredTypes(1)
               /\ \E k \in 1..(j - 1) : partLog[p][k].id \in agent[1].dropped)
              => Calls(1, partLog[p][j].id, partLog[p][j].type) = 1)

\* The first envelope of a partition had no handler and was dropped, and the
\* second envelope of that partition has been dispatched by the same run.
C15_Witness ==
  /\ NoFailure(1)
  /\ \E p \in Partitions :
       /\ NextDispatched(p, agent[1].dropped)
       /\ partLog[p][1].type = "generate_brief"


\* C16: once stop() has started executing in a process, the consume loop of
\* that process starts no further handler invocation.
C16_NoDispatchAfterStop ==
  [][agent[1].stopBegun => inflight'[1] \subseteq inflight[1]]_vars


\* The envelope with the given id is in the topic and process 1 has a
\* handler for its type.
Handled(id) ==
  \E m \in Published : m.id = id /\ m.type \in RegisteredTypes(1)

\* The handler of process 1 for the envelope's type has been called with it,
\* in some run of the process.
HandedOver(id) ==
  \E m \in Published : m.id = id /\ Calls(1, id, m.type) >= 1

\* C17: with a process that is killed at any point and started again under
\* the same group, the group's committed offset never passes an envelope of
\* a handled type that has not been handed to its handler, and every such
\* envelope is eventually handed to its handler in some run.
C17_AtLeastOnce ==
  /\ [](\A p \in Partitions :
          \A k \in 1..committed[GroupId(1)][p] :
            Handled(partLog[p][k].id) => HandedOver(partLog[p][k].id))
  /\ \A id \in 1..MaxMsgs : Handled(id) ~> HandedOver(id)

\* The process was killed after an envelope had been handed to its handler
\* and before its offset was committed, and the next run has handed the
\* envelope to the handler again.
C17_Witness ==
  /\ crashes = 1
  /\ \E m \in Published : Calls(1, m.id, m.type) = 2


\* How often the processes of a group have called the handler of the
\* envelope's type with the envelope m.
GroupCalls(g, m) ==
  LET calls[I \in SUBSET Instances] ==
        IF I = {} THEN 0
        ELSE LET i == CHOOSE j \in I : TRUE
             IN Calls(i, m.id, m.type) + calls[I \ {i}]
  IN calls[{i \in Instances : GroupId(i) = g}]

\* The processes of group g have a handler for the type of the envelope m.
GroupHandles(g, m) ==
  \E i \in Instances : GroupId(i) = g /\ m.type \in RegisteredTypes(i)

\* C18: the two MonitoringAgent processes use one consumer group and the
\* AnalysisAgent another; in operation without failures every envelope of
\* the shared topic is handed to each group separately, and within a group
\* it is processed by exactly one process, exactly once, as soon as the
\* group's consumer has returned it (and by none before).
C18_CompetingConsumers ==
  /\ GroupId(1) = GroupId(2)
  /\ GroupId(3) # GroupId(1)
  /\ \A i \in Instances : \A p \in Partitions :
       owner[GroupId(i)][p] \in {0} \cup {j \in Instances :
                                            GroupId(j) = GroupId(i)}
  /\ \A m \in Published : \A g \in Groups :
       GroupHandles(g, m) =>
         GroupCalls(g, m) = (IF Consumed(g, m) THEN 1 ELSE 0)

\* Two scan_command envelopes were processed one by each MonitoringAgent
\* process, and the AnalysisAgent's group was handed both as well.
C18_Witness ==
  \E m1 \in Published, m2 \in Published :
    /\ Calls(1, m1.id, "scan_command") = 1
    /\ Calls(2, m2.id, "scan_command") = 1
    /\ Consumed(GroupId(3), m1)
    /\ Consumed(GroupId(3), m2)


\* C19: send returns normally only when the broker has acknowledged the
\* write, and the envelope is then in the topic; whenever the broker does
\* not acknowledge (the write is lost, the acknowledgement times out, the
\* producer cannot start) send raises.
C19_SendReturnsAfterAck ==
  /\ sender.result = "returned" =>
       /\ sender.outcome = "acked"
       /\ \E m \in Published : m.id = sender.id
  /\ sender.outcome \in SendOutcomes \ {"acked"} => sender.result = "raised"
  /\ sender.result \in {"none", "returned", "raised"}

\* A first send was acknowledged and is in the topic; the second send was
\* lost by the broker and raised.
C19_Witness ==
  /\ sender.id = 2
  /\ sender.outcome = "lost"
  /\ sender.result = "raised"
  /\ \E m \in Published : m.id = 1
  /\ \A m \in Published : m.id # 2

\* C20: a process never has more than one handler invocation in flight: the
\* next record is dispatched only after the invocation for the previous one
\* has ended.
C20_OneHandlerInFlight ==
  \A i \in Instances :
    /\ Cardinality(inflight[i]) <= 1
    /\ inflight[i] # {} => agent[i].awaited \in inflight[i]
    /\ inflight[i] = {} => agent[i].awaited = NoInv

\* A handler invocation is in flight while the next scan_command of the
\* same partition is already in the topic, not yet dispatched.
C20_Witness ==
  \E p \in Partitions :
    /\ Len(partLog[p]) = 2
    /\ partLog[p][2].type = "scan_command"
    /\ owner[GroupId(1)][p] = 1
    /\ position[GroupId(1)][p] = 1
    /\ inflight[1] = {[id |-> partLog[p][1].id, handler |-> "scan_command"]}

----------------------------------------------------------------------------
(* Properties of the agent runtime *)

\* The handlers registered on the subscriber for the type of the message
\* dispatched last, in the order of the register_handler calls.
RegisteredFor == TypedHandlers(registry.history, registry.dtype)

\* A message was just dispatched.
JustDispatched == registry.dtype # "none" /\ registry.last = NoReg

\* s can be obtained from t by deleting elements.
IsSubseq(s, t) ==
  LET sub[i \in 0..Len(s), j \in 0..Len(t)] ==
        IF i = 0 THEN TRUE
        ELSE IF j = 0 THEN FALSE
        ELSE \/ sub[i, j - 1]
             \/ s[i] = t[j] /\ sub[i - 1, j - 1]
  IN sub[Len(s), Len(t)]

\* C21 as stated: of the handlers registered on a subscriber for a message
\* type, only the one registered last is invoked for a message of that type
\* (no wildcard handler being registered).
C21_LastRegistrationWins ==
  (JustDispatched /\ Wildcard \notin DOMAIN registry.history
     /\ RegisteredFor # <<>>)
  => \A k \in 1..Len(registry.called) :
       registry.called[k] = RegisteredFor[Len(RegisteredFor)]

\* C21: the last registration wins on an agent, whose table keeps one
\* handler per message type; on a subscriber every handler registered for
\* the type of a message is invoked for it, in the order of registration.
C21_AgentLastSubscriberAll ==
  /\ registry.last.api = "agent"
       => /\ registry.last.type \in DOMAIN registry.declared
          /\ registry.declared[registry.last.type] = registry.last.fn
  /\ JustDispatched => IsSubseq(RegisteredFor, registry.called)

\* Two different handlers were registered for scan_command on the
\* subscriber and a scan_command was dispatched to both.
C21_Witness ==
  /\ JustDispatched
  /\ registry.dtype = "scan_command"
  /\ RegisteredFor = <<"f", "g">>
  /\ registry.called = <<"f", "g">>

\* A handler of process i is called in the step.
DispatchesTo(i) ==
  \E x \in DOMAIN invocations' :
    /\ x[1] = i
    /\ x \in DOMAIN invocations => invocations'[x] > invocations[x]

\* C22: when the status of an agent becomes "running", its publisher has
\* been opened, its subscriber is open and holds a handler for every message
\* type the concrete agent declared; and a handler is called only once the
\* status has been made "running" with all those handlers registered.
C22_RunningAfterStart ==
  [][\A i \in Instances :
       /\ (agent[i].status # "running" /\ agent'[i].status = "running")
            => /\ agent[i].producer \in {"started", "stopped"}
               /\ agent'[i].consumer
               /\ agent'[i].cStarted
               /\ DOMAIN agent'[i].handlers = RegisteredTypes(i)
       /\ DispatchesTo(i)
            => /\ agent[i].status # "initializing"
               /\ DOMAIN agent[i].handlers = RegisteredTypes(i)]_vars

\* A running agent with its publisher and its subscriber open has a
\* scan_command handler in flight.
C22_Witness ==
  /\ agent[1].status = "running"
  /\ agent[1].producer = "started"
  /\ agent[1].cStarted
  /\ \E v \in inflight[1] : v.handler = "scan_command"

\* A handler invocation of process i has raised in the step.
HandlerRaised(i) == agent'[i].errored \ agent[i].errored # {}

\* A handler invocation of process i has ended in the step.
HandlerEnded(i) ==
  /\ inflight[i] \ inflight'[i] # {}
  /\ agent'[i].runPc # "new"

\* C24 as stated: a handler invocation that raises adds one to errors_count
\* of its agent, and one that returns leaves errors_count unchanged.
C24_ErrorsCounted ==
  [][\A i \in Instances :
       HandlerEnded(i)
       => agent'[i].errors_count
            = agent[i].errors_count + (IF HandlerRaised(i) THEN 1 ELSE 0)]_vars

\* The audit event records of process i for the message id.
AuditRecords(i, id) ==
  {k \in 1..Len(auditLog) :
     auditLog[k].agent = i /\ auditLog[k].message_id = id}

\* C25 as stated: once the handler invocation for a dispatched message has
\* ended, there is exactly one audit event record with the message's id,
\* its status "error" when the handler raised and "success" otherwise.
C25_OneAuditRecord ==
  \A i \in Instances : \A x \in DOMAIN invocations :
    (x[1] = i /\ crashes = 0
       /\ [id |-> x[2], handler |-> x[3]] \notin inflight[i])
    => /\ Cardinality(AuditRecords(i, x[2])) = 1
       /\ \A k \in AuditRecords(i, x[2]) :
            auditLog[k].status
              = IF x[2] \in agent[i].errored THEN "error" ELSE "success"

\* C26 as stated: the status of an agent process moves only from
\* "initializing" to "running" and from "running" to "stopped": once
\* "stopped" it stays so, and it is never "stopped" without having been
\* "running" (steps in which the process is killed aside).
C26_StatusOrder ==
  [][\A i \in Instances :
       crashes' = crashes
       => /\ agent[i].status = "stopped" => agent'[i].status = "stopped"
          /\ agent[i].status = "initializing"
               => agent'[i].status \in {"initializing", "running"}]_vars

\* C23 as stated, for an agent without consumed topics: it opens no
\* subscriber, and once stop() has cleared the running flag the periodic
\* loop ends and run() returns.
C23_LoopExitsAfterStop ==
  /\ [](~looper.a.consumer)
  /\ looper.a.stopBegun ~> looper.a.runPc \in {"done", "exited", "failed"}

\* C27 as stated: when start() has failed, the status is not "running", no
\* handler has been called, and neither the publisher nor the subscriber
\* is open.
C27_FailsFast ==
  \A i \in Instances :
    agent[i].runPc = "failed"
    => /\ agent[i].status # "running"
       /\ \A x \in DOMAIN invocations : x[1] # i
       /\ agent[i].producer # "started"
       /\ ~agent[i].cStarted

\* Group g has a handler for both envelopes, A was published before B, and
\* B has been dispatched in the group.
DispatchedAfter(g, A, B) ==
  /\ A.id < B.id
  /\ GroupHandles(g, A)
  /\ GroupHandles(g, B)
  /\ GroupCalls(g, B) >= 1

\* C28 as stated: of two envelopes published to the topic one after the
\* other, a consumer group dispatches the later one only when it has
\* dispatched the earlier one.
C28_TopicOrder ==
  \A g \in Groups : \A A \in Published, B \in Published :
    DispatchedAfter(g, A, B) => GroupCalls(g, A) >= 1

\* C28: of two envelopes published one after the other that the producer's
\* key sent to the same partition of the topic, a consumer group dispatches
\* the later one only when it has dispatched the earlier one.
C28_PartitionOrder ==
  \A g \in Groups : \A A \in Published, B \in Published :
    (DispatchedAfter(g, A, B) /\ A.partition = B.partition)
    => GroupCalls(g, A) >= 1

\* Two scan_command envelopes of one partition have both been dispatched in
\* the MonitoringAgent group.
C28_Witness ==
  \E A \in Published, B \in Published :
    /\ DispatchedAfter(GroupId(1), A, B)
    /\ A.partition = B.partition
    /\ A.type = "scan_command"
    /\ B.type = "scan_command"
    /\ GroupCalls(GroupId(1), A) = 1

----------------------------------------------------------------------------
(* Properties of the state machine, continued *)

\* The endpoints that only read the record.
ReadOps ==
  {"get_current_state", "get_all_states", "get_state_history",
   "get_review_gates"}

\* C31: a call that fails (advance blocked by a gate or at the terminal
\* state, approve_gate for a gate not bound to the current state or for an
\* unknown gate id) and a call of a read-only endpoint leave current_state,
\* transitions and gates of the persisted record as they are; all such a
\* call may write is the initial PRE_EVT record when there is no file.
C31_FailuresChangeNothing ==
  [][(response'.op \in ReadOps \/ response'.status_code \in {400, 404})
     => /\ Persisted' = Persisted
        /\ stateFile' \in {stateFile, <<DefaultState>>}
        /\ stateFile # <<>> => stateFile' = stateFile]_vars

\* An approve_gate for a gate not bound to the current state has just
\* failed on a record that holds a transition and an approval.
C31_Witness ==
  /\ response.op = "approve_gate"
  /\ response.status_code = 400
  /\ Len(Persisted.transitions) >= 1
  /\ GateStatus(Persisted, "HR_PRE") = "approved"

\* C38 as stated: once a gate is approved, an approve_gate call does not
\* change the approver recorded for it.
C38_FirstApprovalKept ==
  [][response'.op = "approve_gate"
     => \A g \in GateIds :
          GateStatus(Persisted, g) = "approved"
          => GateApprovedBy(Persisted', g) = GateApprovedBy(Persisted, g)]_vars

\* C40: without reset, with advance and approve_gate for the gate of the
\* current state called again and again, current_state reaches IMPL_EVT and
\* stays there, the log then holding exactly five transitions.
C40_ReachesTerminal ==
  <>[](/\ Persisted.current_state = "IMPL_EVT"
       /\ Len(Persisted.transitions) = 5)

\* The fifth advance has just succeeded.
C40_Witness ==
  /\ response.op = "advance"
  /\ response.status_code = 200
  /\ Persisted.current_state = "IMPL_EVT"
  /\ Len(Persisted.transitions) = 5

----------------------------------------------------------------------------
(* Properties of the agent runtime, continued *)

\* C32 as stated: once stop() has begun in a process, whether or not its
\* start() had finished, the status does not become "running" again, the
\* running flag does not become true again, the subscriber is not opened
\* again and no further message is dispatched (as long as the process is
\* not killed and started anew).
C32_StopNotLost ==
  [][\A i \in Instances :
       (agent[i].stopBegun /\ crashes' = crashes)
       => /\ agent'[i].status = "stopped"
          /\ ~agent'[i].running
          /\ agent'[i].cStarted => agent[i].cStarted
          /\ ~DispatchesTo(i)]_vars

\* C33 as stated: a message is dispatched to the handlers registered for
\* its type and then to each handler registered under "*", once per
\* registration however many messages were dispatched before, and the
\* subscriber's handler table holds after a dispatch what was registered.
C33_WildcardOnce ==
  JustDispatched
  => /\ registry.called
          = RegisteredFor \o TypedHandlers(registry.history, Wildcard)
     /\ registry.table = registry.history

\* stop() has been called in process i when its status was "running", and
\* run() has not yet reached its own stop().
StoppedWhileRunning(i) ==
  /\ agent[i].status = "stopped"
  /\ agent[i].runPc \in {"on_start", "restart_consumer", "fetch", "handling"}

RunStopBegins(i) ==
  /\ agent[i].runPc \notin {"stop_consumer", "stop_producer", "done"}
  /\ agent'[i].runPc \in {"stop_consumer", "stop_producer", "done"}

\* C37 as stated: in a shutdown triggered by a signal, stop() runs once, in
\* the task the signal handler created, so that _on_stop is invoked once:
\* run() does not enter stop() a second time.
C37_StopOnce ==
  [][\A i \in Instances : agent[i].sigPc # "none" => ~RunStopBegins(i)]_vars

\* C36 as stated: once a stop() of a running agent has stopped its
\* publisher (the status is "stopped", the publisher stopped), the publisher
\* stays stopped and publishes nothing more.
C36_PublisherStaysStopped ==
  [][\A i \in Instances :
       (agent[i].producer = "stopped" /\ agent[i].status = "stopped")
       => /\ agent'[i].producer = "stopped"
          /\ agent'[i].sent = agent[i].sent]_vars

\* Every envelope has been consumed by every class subscribed to its topic.
AllDelivered ==
  \A c \in BusClasses : \A t \in CONSUME_TOPICS(c) :
    bus.pos[c][t] = Len(bus.log[t])

\* C35 as stated: once the broker has delivered every envelope to every
\* subscribed consumer group, each analysis_request published has been
\* dispatched to the analysis agent's analysis_request handler.
C35_RequestReachesAnalysis ==
  AllDelivered
  => \A k \in 1..Len(bus.log["analysis"]) :
       bus.log["analysis"][k].type = "analysis_request"
       => <<"analysis", bus.log["analysis"][k].id, "analysis_request">>
            \in bus.called

\* C39 as stated: while a FeedbackAgent is running, run() invokes
\* _periodic_task, so the check for the daily report is eventually executed
\* (unless the agent is stopped first).
C39_PeriodicTaskRuns ==
  (looper.a.consumer /\ looper.a.running /\ ~looper.a.stopBegun)
    ~> (looper.ticks >= 1 \/ looper.a.stopBegun)

====
